---- MODULE Spec2Model ----
(***************************************************************************)
(* Model of the locavox per-topic hybrid message store:                    *)
(*   locavox/embeddings.py  EmbeddingGenerator                             *)
(*   locavox/storage.py     TopicStorage                                   *)
(*   locavox/models.py      BaseTopic                                      *)
(*   locavox/main.py        topics registry, count_user_messages,          *)
(*                          add_message endpoint                           *)
(*                                                                         *)
(* Python strings are TLA+ strings; Chars gives their code points, on      *)
(* which lower(), split(), the `in` test and ord() are computed.           *)
(***************************************************************************)
EXTENDS Integers, Sequences, FiniteSets, TLC

\* ------------------------------------------------------------------------
\* Bounds of the model
\* ------------------------------------------------------------------------
\* length of the text whose character codes sum past the 32-bit seed range
OverflowLen == 3856
\* calls of EmbeddingGenerator.generate explored by SpecEmbed
MaxCalls == 3

\* ------------------------------------------------------------------------
\* Strings
\* ------------------------------------------------------------------------
BigText == "U+10FFFF x OverflowLen"

\* the strings used as inputs
Strings ==
    {"", "a", "A", "b", "ab", "ba", "Ab", "a b", "b a", "b c", "c a", "a c", "ca",
     " a", " ", "u1", "u2", "' OR '1'='1", "dummy", BigText}

\* their code points
Chars(s) ==
    CASE s = "" -> << >>
      [] s = "a" -> <<97>>
      [] s = "A" -> <<65>>
      [] s = "b" -> <<98>>
      [] s = "ab" -> <<97, 98>>
      [] s = "ba" -> <<98, 97>>
      [] s = "Ab" -> <<65, 98>>
      [] s = "a b" -> <<97, 32, 98>>
      [] s = "b a" -> <<98, 32, 97>>
      [] s = "b c" -> <<98, 32, 99>>
      [] s = "c a" -> <<99, 32, 97>>
      [] s = "a c" -> <<97, 32, 99>>
      [] s = "ca" -> <<99, 97>>
      [] s = " a" -> <<32, 97>>
      [] s = " " -> <<32>>
      [] s = "u1" -> <<117, 49>>
      [] s = "u2" -> <<117, 50>>
      [] s = "' OR '1'='1" -> <<39, 32, 79, 82, 32, 39, 49, 39, 61, 39, 49>>
      [] s = "dummy" -> <<100, 117, 109, 109, 121>>
      [] s = BigText -> [i \in 1..OverflowLen |-> 1114111]

\* str.lower() on the ASCII range
Lower(cs) == [i \in 1..Len(cs) |-> IF cs[i] \in 65..90 THEN cs[i] + 32 ELSE cs[i]]

\* q occurs in c at 1-based position p
OccursAt(c, q, p) ==
    /\ p + Len(q) - 1 <= Len(c)
    /\ \A i \in 1..Len(q) : c[p + i - 1] = q[i]

\* Python `q in c` on strings
StrIn(q, c) == \E p \in 1..(Len(c) + 1) : OccursAt(c, q, p)

\* Python c.index(q): 0-based position of the first occurrence
StrIndex(c, q) ==
    (CHOOSE p \in 1..(Len(c) + 1) :
        /\ OccursAt(c, q, p)
        /\ \A r \in 1..(p - 1) : ~OccursAt(c, q, r)) - 1

\* str.split(): maximal runs of non-space characters
RECURSIVE SplitFrom(_, _, _, _)
SplitFrom(cs, i, cur, acc) ==
    IF i > Len(cs)
    THEN IF cur = << >> THEN acc ELSE Append(acc, cur)
    ELSE IF cs[i] = 32
         THEN SplitFrom(cs, i + 1, << >>, IF cur = << >> THEN acc ELSE Append(acc, cur))
         ELSE SplitFrom(cs, i + 1, Append(cur, cs[i]), acc)

Split(cs) == SplitFrom(cs, 1, << >>, << >>)

SeqContains(seq, x) == \E i \in 1..Len(seq) : seq[i] = x

\* ------------------------------------------------------------------------
\* Scores are rationals <<numerator, denominator>>
\* ------------------------------------------------------------------------
ScoreGt(x, y) == x[1] * y[2] > y[1] * x[2]
ScoreGe(x, y) == x[1] * y[2] >= y[1] * x[2]
ExactMatchThreshold == <<8, 10>>

TextScoreCaseSensitive(content, query) ==
    LET content_words == Split(Chars(content))
        query_words == Split(Chars(query))
        matches == Cardinality({i \in 1..Len(query_words) :
                                  SeqContains(content_words, query_words[i])})
    IN  IF StrIn(Chars(query), Chars(content))
        THEN IF StrIndex(Chars(content), Chars(query)) = 0 THEN <<10, 10>> ELSE <<9, 10>>
        ELSE IF Len(query_words) = 1
             THEN IF SeqContains(content_words, Chars(query)) THEN <<10, 10>> ELSE <<0, 10>>
             ELSE IF matches > 0 THEN <<matches, Len(query_words)>> ELSE <<0, 10>>

\* TopicStorage._text_search_score
TextScore(content, query) ==
    LET content_lower == Lower(Chars(content))
        query_lower == Lower(Chars(query))
        query_words == Split(query_lower)
        content_words == Split(content_lower)
        matches == Cardinality({i \in 1..Len(query_words) :
                                  SeqContains(content_words, query_words[i])})
    IN  IF StrIn(query_lower, content_lower)
        THEN IF StrIndex(content_lower, query_lower) = 0 THEN <<10, 10>> ELSE <<9, 10>>
        ELSE IF Len(query_words) = 1
             THEN IF SeqContains(content_words, query_lower) THEN <<10, 10>> ELSE <<0, 10>>
             ELSE IF matches > 0 THEN <<matches, Len(query_words)>> ELSE <<0, 10>>

\* ------------------------------------------------------------------------
\* Embeddings (locavox/embeddings.py)
\* ------------------------------------------------------------------------
\* 32-bit quantities are kept as two 16-bit limbs <<high, low>>
Limbs(n) == <<n \div 65536, n % 65536>>

LimbAdd(x, y) ==
    LET low == x[2] + y[2]
    IN  <<x[1] + y[1] + (low \div 65536), low % 65536>>

\* sum(ord(c) for c in text)
RECURSIVE SumRange(_, _, _)
SumRange(cs, lo, hi) ==
    IF lo > hi THEN <<0, 0>>
    ELSE IF lo = hi THEN Limbs(cs[lo])
    ELSE LET mid == (lo + hi) \div 2
         IN  LimbAdd(SumRange(cs, lo, mid), SumRange(cs, mid + 1, hi))

SumOrdOf == [s \in Strings |-> SumRange(Chars(s), 1, Len(Chars(s)))]

SumOrd(text) == SumOrdOf[text]

\* np.random.seed accepts 0 .. 2**32 - 1 and raises ValueError otherwise
SeedInRange(seed) == seed[1] < 65536

OPENAI_EMBEDDING_DIMENSION == 1536
SENTENCE_TRANSFORMER_DIMENSION == 384

ModelTypes == {"openai", "sentence-transformer"}

\* the dimension both TopicStorage.__init__ and _generate_fallback select
Dimension(model_type) ==
    IF model_type = "openai" THEN OPENAI_EMBEDDING_DIMENSION
    ELSE SENTENCE_TRANSFORMER_DIMENSION

\* conditions of the embedding backend at one call
BackendConds == {"available", "no_credentials", "no_dependency", "raises"}

\* lengths of the vector an available backend returns
BackendLens == {OPENAI_EMBEDDING_DIMENSION, SENTENCE_TRANSFORMER_DIMENSION}

\* state of numpy's global generator: the seed it was last given and the
\* number of values drawn since; <<-1, -1>> is the unseeded start
NpInit == [seed |-> <<-1, -1>>, drawn |-> 0]

NpSeedKeepState(np, seed) == np

\* np.random.seed(seed)
NpSeed(np, seed) == [seed |-> seed, drawn |-> 0]

\* np.random.rand(n): the values are determined by the generator state
NpRandVector(np, n) == [kind |-> "rand", len |-> n, seed |-> np.seed, off |-> np.drawn]
NpRandState(np, n) == [np EXCEPT !.drawn = np.drawn + n]

BackendVector(n) == [kind |-> "backend", len |-> n, seed |-> <<0, 0>>, off |-> 0]

NoVector == [kind |-> "none", len |-> 0, seed |-> <<0, 0>>, off |-> 0]

\* EmbeddingGenerator._generate_fallback: result and generator state after
GenerateFallback(text, model_type, np) ==
    LET dimension == Dimension(model_type)
        seed == SumOrd(text)
        seeded == NpSeed(np, seed)
    IN  IF SeedInRange(seed)
        THEN [ok |-> TRUE, via |-> "fallback", vec |-> NpRandVector(seeded, dimension),
              np |-> NpRandState(seeded, dimension)]
        ELSE [ok |-> FALSE, via |-> "fallback", vec |-> NoVector, np |-> np]

\* the remote call or the local model answers at this call
UsesBackend(model_type, cond) ==
    IF model_type = "openai"
    THEN cond = "available"
    ELSE cond \in {"available", "no_credentials"}

\* EmbeddingGenerator._generate_openai: the key check sits inside the try
\* block, so a ValueError of its fallback call is caught by `except Exception`,
\* whose handler calls the fallback again
GenerateOpenai(text, model_type, cond, backend_len, np) ==
    LET first == GenerateFallback(text, model_type, np)
    IN  CASE cond = "available" ->
               [ok |-> TRUE, via |-> "backend", vec |-> BackendVector(backend_len), np |-> np]
          [] cond = "no_credentials" ->
               IF first.ok THEN first ELSE GenerateFallback(text, model_type, first.np)
          [] OTHER -> first

\* EmbeddingGenerator._generate_sentence_transformer (no credentials needed):
\* the fallback of the inner ImportError handler runs inside the outer try
GenerateSentenceTransformer(text, model_type, cond, backend_len, np) ==
    LET first == GenerateFallback(text, model_type, np)
    IN  CASE cond \in {"available", "no_credentials"} ->
               [ok |-> TRUE, via |-> "backend", vec |-> BackendVector(backend_len), np |-> np]
          [] cond = "no_dependency" ->
               IF first.ok THEN first ELSE GenerateFallback(text, model_type, first.np)
          [] OTHER -> first

\* EmbeddingGenerator.generate
Generate(text, model_type, cond, backend_len, np) ==
    IF model_type = "openai"
    THEN GenerateOpenai(text, model_type, cond, backend_len, np)
    ELSE GenerateSentenceTransformer(text, model_type, cond, backend_len, np)

\* ------------------------------------------------------------------------
\* Metadata documents and their JSON text
\* ------------------------------------------------------------------------
\* a document is a sequence of <<key, value>> members, a value is
\* <<"str", s>> or <<"lit", s>>; the JSON text is a sequence of tokens
JLBrace == <<"punct", "{">>
JRBrace == <<"punct", "}">>
JColon == <<"punct", ":">>
JComma == <<"punct", ",">>

RECURSIVE JsonMembers(_, _)
JsonMembers(doc, i) ==
    IF i > Len(doc) THEN << >>
    ELSE (IF i > 1 THEN <<JComma>> ELSE << >>)
         \o <<(<<"str", doc[i][1]>>), JColon, doc[i][2]>>
         \o JsonMembers(doc, i + 1)

\* json.dumps of a dict
JsonDumps(doc) == <<JLBrace>> \o JsonMembers(doc, 1) \o <<JRBrace>>

IsJsonValue(tok) == tok[1] \in {"str", "lit"}

\* members from token i on, up to the closing brace; acc is the dict so far
RECURSIVE JsonParseMembers(_, _, _)
JsonParseMembers(toks, i, acc) ==
    IF /\ i + 3 <= Len(toks)
       /\ toks[i][1] = "str"
       /\ toks[i + 1] = JColon
       /\ IsJsonValue(toks[i + 2])
    THEN LET acc2 == Append(acc, <<toks[i][2], toks[i + 2]>>)
         IN  IF toks[i + 3] = JRBrace /\ i + 3 = Len(toks)
             THEN [ok |-> TRUE, doc |-> acc2]
             ELSE IF toks[i + 3] = JComma
                  THEN JsonParseMembers(toks, i + 4, acc2)
                  ELSE [ok |-> FALSE, doc |-> << >>]
    ELSE [ok |-> FALSE, doc |-> << >>]

\* json.loads; ok = FALSE is JSONDecodeError
JsonLoads(toks) ==
    IF Len(toks) >= 2 /\ toks[1] = JLBrace
    THEN IF Len(toks) = 2
         THEN [ok |-> toks[2] = JRBrace, doc |-> << >>]
         ELSE JsonParseMembers(toks, 2, << >>)
    ELSE [ok |-> FALSE, doc |-> << >>]

\* ------------------------------------------------------------------------
\* Topics
\* ------------------------------------------------------------------------
\* keys under which a topic object can exist
TopicKeys == {"marketplace", "chat", "topic1", "Neighborhood Hub Chat", "test_topic"}

\* BaseTopic.name of the object stored under a key: the two default topics
\* carry their own names, a topic created for a request is named by its key
NameOf(key) ==
    CASE key = "marketplace" -> "Community Task Marketplace"
      [] key = "chat" -> "Neighborhood Hub Chat"
      [] OTHER -> key

\* TopicStorage.db_path: topic_name.lower().replace(" ", "_")
DbPath(name) ==
    CASE name = "Community Task Marketplace" -> "community_task_marketplace"
      [] name = "Neighborhood Hub Chat" -> "neighborhood_hub_chat"
      [] name = "topic1" -> "topic1"
      [] name = "test_topic" -> "test_topic"

PathOf(key) == DbPath(NameOf(key))

Paths == {PathOf(k) : k \in TopicKeys}

\* ------------------------------------------------------------------------
\* The store of one topic (locavox/storage.py) over a world record w:
\*   init_complete[key]    BaseTopic._init_complete
\*   st_initialized[key]   TopicStorage._initialized
\*   st_table[key]         TopicStorage.table is set
\*   table_exists[path]    <db_path>/messages.lance exists on disk
\*   table_rows[path]      rows of that table, in storage order
\*   messages[key]         BaseTopic.messages
\*   np_random             numpy's global generator
\* ------------------------------------------------------------------------
Min(a, b) == IF a <= b THEN a ELSE b

\* s[:n] for n >= 0
Prefix(s, n) == SubSeq(s, 1, Min(n, Len(s)))

\* the subsequence of s at the indices in I, in order
RECURSIVE FilterIdx(_, _, _)
FilterIdx(s, I, i) ==
    IF i > Len(s) THEN << >>
    ELSE (IF i \in I THEN <<s[i]>> ELSE << >>) \o FilterIdx(s, I, i + 1)

\* the row _create_empty_table builds
DummyRow(dim, now) ==
    [id |-> "dummy", content |-> "dummy", userId |-> "dummy", timestamp |-> now,
     metadata |-> JsonDumps(<< <<"dummy", <<"lit", "true">> >> >>),
     vector |-> [kind |-> "zeros", len |-> dim, seed |-> <<0, 0>>, off |-> 0]]

\* a _clear_dummy_data that deletes nothing
KeepDummyData(rows) == rows

\* TopicStorage._clear_dummy_data: table.delete('id = "dummy"')
ClearDummyData(rows) ==
    FilterIdx(rows, {i \in 1..Len(rows) : rows[i].id # "dummy"}, 1)

\* a _create_or_connect_table that creates the table whether it exists or not
CreateOrConnectTableAlways(w, key, dim, now) ==
    [w EXCEPT !.table_exists[PathOf(key)] = TRUE,
              !.table_rows[PathOf(key)] = ClearDummyData(<<DummyRow(dim, now)>>),
              !.st_table[key] = TRUE]

\* TopicStorage._create_or_connect_table: open the table when its path
\* exists, else create it from the dummy batch and clear the dummy row
CreateOrConnectTable(w, key, dim, now) ==
    LET path == PathOf(key)
    IN  IF w.table_exists[path]
        THEN [w EXCEPT !.st_table[key] = TRUE]
        ELSE [w EXCEPT !.table_exists[path] = TRUE,
                       !.table_rows[path] = ClearDummyData(<<DummyRow(dim, now)>>),
                       !.st_table[key] = TRUE]

\* TopicStorage.initialize
StorageInitialize(w, key, dim, now) ==
    [CreateOrConnectTable(w, key, dim, now) EXCEPT !.st_initialized[key] = TRUE]

EnsureInitializedNever(w, key, dim, now) == w

\* TopicStorage._ensure_initialized
EnsureInitialized(w, key, dim, now) ==
    IF ~w.st_initialized[key] \/ ~w.st_table[key]
    THEN StorageInitialize(w, key, dim, now)
    ELSE w

\* BaseTopic.initialize
TopicInitialize(w, key, dim, now) ==
    [StorageInitialize(w, key, dim, now) EXCEPT !.init_complete[key] = TRUE]

\* the guard at the head of every BaseTopic operation
TopicEnsureInitialized(w, key, dim, now) ==
    IF ~w.init_complete[key] \/ ~w.st_table[key]
    THEN TopicInitialize(w, key, dim, now)
    ELSE w

\* result of an operation: the world after it, whether it returned or
\* raised, what it raised, the messages returned, the stage that answered
Res(w, ok, err, msgs, stage) ==
    [w |-> w, ok |-> ok, err |-> err, msgs |-> msgs, stage |-> stage]

\* TopicStorage.add_message
StorageAddMessageNoCheck(w, key, msg, mt, cond, backend_len) ==
    LET path == PathOf(key)
        w1 == EnsureInitialized(w, key, Dimension(mt), msg.timestamp)
        g == Generate(msg.content, mt, cond, backend_len, w1.np_random)
        w2 == [w1 EXCEPT !.np_random = g.np]
        row == [id |-> msg.id, content |-> msg.content, userId |-> msg.userId,
                timestamp |-> msg.timestamp, metadata |-> JsonDumps(msg.metadata),
                vector |-> g.vec]
    IN  IF ~g.ok THEN Res(w2, FALSE, "ValueError", << >>, "add")
        ELSE Res([w2 EXCEPT !.table_rows[path] = Append(@, row)],
                 TRUE, "none", << >>, "add")

\* an add_message whose table.add replaces the rows (mode="overwrite")
StorageAddMessageOverwrite(w, key, msg, mt, cond, backend_len) ==
    LET r == StorageAddMessageNoCheck(w, key, msg, mt, cond, backend_len)
    IN  IF ~r.ok THEN r
        ELSE [r EXCEPT !.w.table_rows[PathOf(key)] = <<r.w.table_rows[PathOf(key)][Len(r.w.table_rows[PathOf(key)])]>>]

\* TopicStorage.add_message
StorageAddMessage(w, key, msg, mt, cond, backend_len) ==
    LET path == PathOf(key)
        vector_dim == Dimension(mt)
        w1 == EnsureInitialized(w, key, vector_dim, msg.timestamp)
        g == Generate(msg.content, mt, cond, backend_len, w1.np_random)
        w2 == [w1 EXCEPT !.np_random = g.np]
        row == [id |-> msg.id, content |-> msg.content, userId |-> msg.userId,
                timestamp |-> msg.timestamp, metadata |-> JsonDumps(msg.metadata),
                vector |-> g.vec]
    IN  IF ~g.ok THEN Res(w2, FALSE, "ValueError", << >>, "add")
        ELSE IF g.vec.len # vector_dim
             THEN Res(w2, FALSE, "DimensionMismatch", << >>, "add")
             ELSE Res([w2 EXCEPT !.table_rows[path] = Append(@, row)],
                      TRUE, "none", << >>, "add")

\* BaseTopic.add_message
TopicAddMessage(w, key, msg, mt, cond, backend_len) ==
    LET w1 == TopicEnsureInitialized(w, key, Dimension(mt), msg.timestamp)
        r == StorageAddMessage(w1, key, msg, mt, cond, backend_len)
    IN  IF r.ok
        THEN [r EXCEPT !.w.messages[key] = Append(@, msg)]
        ELSE r

RowMessageNoMetadata(row) ==
    [id |-> row.id, content |-> row.content, userId |-> row.userId,
     timestamp |-> row.timestamp, metadata |-> << >>]

\* a stored row as the Message the read paths build: metadata parsed back,
\* an undecodable metadata text replaced by the empty document
RowMessage(row) ==
    LET parsed == JsonLoads(row.metadata)
    IN  [id |-> row.id, content |-> row.content, userId |-> row.userId,
         timestamp |-> row.timestamp,
         metadata |-> IF parsed.ok THEN parsed.doc ELSE << >>]

\* json.loads succeeds with a value that is not a dict
JsonScalar(toks) == Len(toks) = 1 /\ IsJsonValue(toks[1])

\* get_messages leaves a falsy (empty) metadata text as it is and parses a
\* JSON scalar to a value that is no dict: Message then rejects the row
RowConverts(row) == row.metadata # << >> /\ ~JsonScalar(row.metadata)

\* search_messages converts every row it selected
RowMessagesAll(rows) == [i \in 1..Len(rows) |-> RowMessage(rows[i])]

\* a conversion that gives up on the whole result at the first bad row
RowMessagesAllOrNothing(rows) ==
    IF \A i \in 1..Len(rows) : RowConverts(rows[i]) /\ JsonLoads(rows[i].metadata).ok
    THEN [i \in 1..Len(rows) |-> RowMessage(rows[i])]
    ELSE << >>

\* the conversion loop of get_messages: a row that raises is skipped
RowMessages(rows) ==
    LET kept == FilterIdx(rows, {i \in 1..Len(rows) : RowConverts(rows[i])}, 1)
    IN  [i \in 1..Len(kept) |-> RowMessage(kept[i])]

\* method 2 of get_messages_by_user skips a row whose metadata does not parse
RowMessagesStrict(rows) ==
    LET kept == FilterIdx(rows, {i \in 1..Len(rows) :
                        RowConverts(rows[i]) /\ JsonLoads(rows[i].metadata).ok}, 1)
    IN  [i \in 1..Len(kept) |-> RowMessage(kept[i])]

\* the orders a sort by descending key can leave the indices I in (the
\* sort is not stable: equal keys may come out in any order)
RECURSIVE OrdersBy(_, _)
OrdersBy(keys, I) ==
    IF I = {} THEN {<< >>}
    ELSE LET tops == {i \in I : \A j \in I : ScoreGe(keys[i], keys[j])}
         IN  UNION {{<<i>> \o o : o \in OrdersBy(keys, I \ {i})} : i \in tops}

\* sort_values("timestamp", ascending=False) on the rows of a table
TimestampOrders(rows) ==
    OrdersBy([i \in 1..Len(rows) |-> <<rows[i].timestamp, 1>>], 1..Len(rows))

\* one outcome of the sort for every table in P
RECURSIVE SortChoices(_, _)
SortChoices(w, P) ==
    IF P = {} THEN {<< >>}
    ELSE LET p == CHOOSE x \in P : TRUE
         IN  {[q \in (DOMAIN f) \cup {p} |-> IF q = p THEN o ELSE f[q]] :
                 f \in SortChoices(w, P \ {p}), o \in TimestampOrders(w.table_rows[p])}

StorageGetMessagesUnsorted(w, key, limit, order, dim, now) ==
    LET w1 == EnsureInitialized(w, key, dim, now)
    IN  Res(w1, TRUE, "none", RowMessages(Prefix(w1.table_rows[PathOf(key)], limit)), "scan")

\* TopicStorage.get_messages; order is the outcome of the sort
StorageGetMessages(w, key, limit, order, dim, now) ==
    LET path == PathOf(key)
        w1 == EnsureInitialized(w, key, dim, now)
        rows == w1.table_rows[path]
        sorted == [i \in 1..Len(rows) |-> rows[order[i]]]
    IN  Res(w1, TRUE, "none", RowMessages(Prefix(sorted, limit)), "scan")

\* BaseTopic.get_messages
TopicGetMessages(w, key, limit, order, dim, now) ==
    StorageGetMessages(TopicEnsureInitialized(w, key, dim, now), key, limit, order, dim, now)

\* ------------------------------------------------------------------------
\* Filter expressions handed to table.search().where(...)
\* ------------------------------------------------------------------------
SqlIsQuote(c) == c \in {34, 39}

\* position of the first c at or after i, 0 when there is none
RECURSIVE SqlFind(_, _, _)
SqlFind(cs, c, i) ==
    IF i > Len(cs) THEN 0
    ELSE IF cs[i] = c THEN i ELSE SqlFind(cs, c, i + 1)

\* end of the bare word starting at i
RECURSIVE SqlWordEnd(_, _)
SqlWordEnd(cs, i) ==
    IF i + 1 > Len(cs) \/ cs[i + 1] = 32 \/ cs[i + 1] = 61 \/ SqlIsQuote(cs[i + 1])
    THEN i
    ELSE SqlWordEnd(cs, i + 1)

\* tokens: <<"sq", text>>, <<"dq", text>>, <<"eq", <<>>>>, <<"word", text>>;
\* ok = FALSE for an unterminated quote
RECURSIVE SqlTokens(_, _, _)
SqlTokens(cs, i, acc) ==
    IF i > Len(cs) THEN [ok |-> TRUE, toks |-> acc]
    ELSE IF cs[i] = 32 THEN SqlTokens(cs, i + 1, acc)
    ELSE IF cs[i] = 61 THEN SqlTokens(cs, i + 1, Append(acc, <<"eq", << >> >>))
    ELSE IF SqlIsQuote(cs[i])
         THEN LET j == SqlFind(cs, cs[i], i + 1)
              IN  IF j = 0 THEN [ok |-> FALSE, toks |-> acc]
                  ELSE SqlTokens(cs, j + 1,
                           Append(acc, <<(IF cs[i] = 39 THEN "sq" ELSE "dq"),
                                         SubSeq(cs, i + 1, j - 1)>>))
         ELSE LET e == SqlWordEnd(cs, i)
              IN  SqlTokens(cs, e + 1, Append(acc, <<"word", SubSeq(cs, i, e)>>))

SqlIsOperand(tok) == tok[1] \in {"sq", "dq", "word"}

\* operand = operand { OR operand = operand }, from token i on
RECURSIVE SqlWellFormed(_, _)
SqlWellFormed(toks, i) ==
    /\ i + 2 <= Len(toks)
    /\ SqlIsOperand(toks[i]) /\ toks[i + 1][1] = "eq" /\ SqlIsOperand(toks[i + 2])
    /\ \/ i + 2 = Len(toks)
       \/ /\ i + 3 <= Len(toks)
          /\ toks[i + 3] = <<"word", <<79, 82>> >>
          /\ SqlWellFormed(toks, i + 4)

\* names of the columns a filter can name
SqlColumn(cs) ==
    CASE cs = <<117, 115, 101, 114, 73, 100>> -> "userId"
      [] cs = <<105, 100>> -> "id"
      [] cs = <<99, 111, 110, 116, 101, 110, 116>> -> "content"
      [] OTHER -> "none"

\* the kind of token that names a column and the kind that is a string
\* literal, for the filter of method 1 ("userId" = '...') and for the
\* filter of method 2 (userId = "...")
SqlIdentKind(method) == IF method = 1 THEN "dq" ELSE "word"
SqlLiteralKind(method) == IF method = 1 THEN "sq" ELSE "dq"

SqlOperandOk(tok, method) ==
    \/ tok[1] = SqlLiteralKind(method)
    \/ tok[1] = "sq"
    \/ tok[1] = SqlIdentKind(method) /\ SqlColumn(tok[2]) # "none"

SqlOperandValue(tok, row, method) ==
    IF tok[1] = SqlIdentKind(method) /\ SqlColumn(tok[2]) # "none"
    THEN Chars(row[SqlColumn(tok[2])])
    ELSE tok[2]

RECURSIVE SqlAllOperandsOk(_, _, _)
SqlAllOperandsOk(toks, i, method) ==
    /\ SqlOperandOk(toks[i], method) /\ SqlOperandOk(toks[i + 2], method)
    /\ (i + 2 < Len(toks) => SqlAllOperandsOk(toks, i + 4, method))

RECURSIVE SqlHolds(_, _, _, _)
SqlHolds(toks, i, row, method) ==
    \/ SqlOperandValue(toks[i], row, method) = SqlOperandValue(toks[i + 2], row, method)
    \/ (i + 2 < Len(toks) /\ SqlHolds(toks, i + 4, row, method))

\* f"\"userId\" = '{user_id}'"
WhereMethod1(user_id) ==
    <<34, 117, 115, 101, 114, 73, 100, 34, 32, 61, 32, 39>> \o Chars(user_id) \o <<39>>

\* 'userId = "{}"'.format(user_id)
WhereMethod2(user_id) ==
    <<117, 115, 101, 114, 73, 100, 32, 61, 32, 34>> \o Chars(user_id) \o <<34>>

\* table.search().where(clause).limit(limit).to_pandas(): ok = FALSE when the
\* clause is rejected, else the first limit rows the clause holds for
WhereQuery(rows, clause, limit, method) ==
    LET t == SqlTokens(clause, 1, << >>)
        valid == /\ t.ok
                 /\ SqlWellFormed(t.toks, 1)
                 /\ SqlAllOperandsOk(t.toks, 1, method)
    IN  IF ~valid THEN [ok |-> FALSE, rows |-> << >>]
        ELSE [ok |-> TRUE,
              rows |-> Prefix(FilterIdx(rows, {i \in 1..Len(rows) :
                                  SqlHolds(t.toks, 1, rows[i], method)}, 1), limit)]

\* the window of the full scan both get_messages_by_user fall back to
\* (get_messages(1000) in the source), kept below the row bound so that
\* tables larger than the window are explored
FULL_SCAN_LIMIT == 2

\* Python userId filter of the fallback: [m for m in all if m.userId == u]
ByUser(msgs, user_id) ==
    FilterIdx(msgs, {i \in 1..Len(msgs) : msgs[i].userId = user_id}, 1)

\* a get_messages_by_user whose method 1 goes on to the next method when it
\* finds no row
StorageGetMessagesByUserFallThrough(w, key, user_id, limit, order, tier1, tier2, dim, now) ==
    LET path == PathOf(key)
        w1 == EnsureInitialized(w, key, dim, now)
        rows == w1.table_rows[path]
        q1 == WhereQuery(rows, WhereMethod1(user_id), limit, 1)
        q2 == WhereQuery(rows, WhereMethod2(user_id), limit, 2)
        all == StorageGetMessages(w1, key, FULL_SCAN_LIMIT, order, dim, now)
    IN  IF tier1 = "answers" /\ q1.ok /\ q1.rows # << >>
        THEN Res(w1, TRUE, "none", RowMessages(q1.rows), "method1")
        ELSE IF tier2 = "answers" /\ q2.ok /\ q2.rows # << >>
             THEN Res(w1, TRUE, "none", RowMessagesStrict(q2.rows), "method2")
             ELSE Res(all.w, TRUE, "none", Prefix(ByUser(all.msgs, user_id), limit),
                      "method3")

\* TopicStorage.get_messages_by_user; tier1 and tier2 say whether the
\* backend answers the filtered query of method 1 and of method 2 or raises
StorageGetMessagesByUser(w, key, user_id, limit, order, tier1, tier2, dim, now) ==
    LET path == PathOf(key)
        w1 == EnsureInitialized(w, key, dim, now)
        rows == w1.table_rows[path]
        q1 == WhereQuery(rows, WhereMethod1(user_id), limit, 1)
        q2 == WhereQuery(rows, WhereMethod2(user_id), limit, 2)
        all == StorageGetMessages(w1, key, FULL_SCAN_LIMIT, order, dim, now)
    IN  IF tier1 = "answers" /\ q1.ok
        THEN Res(w1, TRUE, "none", RowMessages(q1.rows), "method1")
        ELSE IF tier2 = "answers" /\ q2.ok /\ q2.rows # << >>
             THEN Res(w1, TRUE, "none", RowMessagesStrict(q2.rows), "method2")
             ELSE Res(all.w, TRUE, "none", Prefix(ByUser(all.msgs, user_id), limit),
                      "method3")

\* BaseTopic.get_messages_by_user: TopicStorage has no dataset_path, the
\* AttributeError is caught and the handler scans get_messages(1000)
TopicGetMessagesByUserNoFilter(w, key, user_id, limit, order, dim, now) ==
    LET w1 == TopicEnsureInitialized(w, key, dim, now)
        all == TopicGetMessages(w1, key, FULL_SCAN_LIMIT, order, dim, now)
    IN  Res(all.w, TRUE, "none", Prefix(all.msgs, limit), "fallback")

TopicGetMessagesByUser(w, key, user_id, limit, order, dim, now) ==
    LET w1 == TopicEnsureInitialized(w, key, dim, now)
        all == TopicGetMessages(w1, key, FULL_SCAN_LIMIT, order, dim, now)
    IN  Res(all.w, TRUE, "none", Prefix(ByUser(all.msgs, user_id), limit), "fallback")

\* ------------------------------------------------------------------------
\* Hybrid search (TopicStorage.search_messages)
\* ------------------------------------------------------------------------
SimilarityThreshold == <<1, 10>>

\* cosine distances, in tenths
DistValues == {0, 3, 12}

\* distances the backend can report for the rows: equal vectors are at equal
\* distance, the query's own vector is at distance 0
RowDistances(rows, query_vec) ==
    {d \in [1..Len(rows) -> DistValues] :
        /\ \A i \in 1..Len(rows) : (rows[i].vector = query_vec => d[i] = 0)
        /\ \A i, j \in 1..Len(rows) : (rows[i].vector = rows[j].vector => d[i] = d[j])}

\* the _distance column of the vector search: ascending
AscendingDistances(dist) ==
    LET o == CHOOSE o \in OrdersBy([i \in 1..Len(dist) |-> <<0 - dist[i], 1>>],
                                   1..Len(dist)) : TRUE
    IN  [i \in 1..Len(dist) |-> dist[o[i]]]

\* text_score * 0.7 + vector_score * 0.3 with vector_score = 1 - distance
FinalScore(text_score, distance) ==
    <<70 * text_score[1] + 3 * (10 - distance) * text_score[2], 100 * text_score[2]>>

\* _text_search_score over the strings of the model, tabulated
TextScoreOf == [content \in Strings, query \in Strings |-> TextScore(content, query)]

\* indices of the rows whose text score is above the exact-match threshold
ExactMatches(rows, query) ==
    {i \in 1..Len(rows) : ScoreGt(TextScoreOf[rows[i].content, query], ExactMatchThreshold)}

\* final_score per storage position: the score column is assigned by index,
\* position i takes the i-th smallest distance
FinalScores(rows, query, dist) ==
    LET asc == AscendingDistances(dist)
    IN  [i \in 1..Len(rows) |-> FinalScore(TextScoreOf[rows[i].content, query], asc[i])]

\* outcomes of the final sort_values("final_score", ascending=False)
FinalOrders(rows, query, dist) ==
    LET final == FinalScores(rows, query, dist)
    IN  OrdersBy(final, {i \in 1..Len(rows) : ScoreGe(final[i], SimilarityThreshold)})

\* a search that goes to the vector stage whatever the text scores are
StorageSearchMessagesNoShortCircuit(w, key, query, limit, mt, cond, backend_len, vsearch, dist, forder) ==
    LET path == PathOf(key)
        w1 == EnsureInitialized(w, key, Dimension(mt), 0)
        rows == w1.table_rows[path]
        g == Generate(query, mt, cond, backend_len, w1.np_random)
        w2 == [w1 EXCEPT !.np_random = g.np]
        ranked == [i \in 1..Len(forder) |-> rows[forder[i]]]
    IN  IF rows = << >> THEN Res(w1, TRUE, "none", << >>, "empty")
        ELSE IF ~g.ok THEN Res(w2, TRUE, "none", << >>, "embed_failed")
        ELSE IF vsearch = "raises" THEN Res(w2, TRUE, "none", << >>, "vector_failed")
        ELSE Res(w2, TRUE, "none", RowMessagesAll(Prefix(ranked, limit)), "vector")

\* the search itself; vsearch says whether table.search(...) answers or
\* raises, dist and forder are the distances and the outcome of the final sort
StorageSearchMessages(w, key, query, limit, mt, cond, backend_len, vsearch, dist, forder) ==
    LET path == PathOf(key)
        w1 == EnsureInitialized(w, key, Dimension(mt), 0)
        rows == w1.table_rows[path]
        exact == FilterIdx(rows, ExactMatches(rows, query), 1)
        g == Generate(query, mt, cond, backend_len, w1.np_random)
        w2 == [w1 EXCEPT !.np_random = g.np]
        ranked == [i \in 1..Len(forder) |-> rows[forder[i]]]
    IN  IF rows = << >> THEN Res(w1, TRUE, "none", << >>, "empty")
        ELSE IF exact # << >>
             THEN Res(w1, TRUE, "none", RowMessagesAll(Prefix(exact, limit)), "exact")
             ELSE IF ~g.ok THEN Res(w2, TRUE, "none", << >>, "embed_failed")
             ELSE IF vsearch = "raises" THEN Res(w2, TRUE, "none", << >>, "vector_failed")
             ELSE Res(w2, TRUE, "none", RowMessagesAll(Prefix(ranked, limit)), "vector")

\* BaseTopic.search_messages
TopicSearchMessages(w, key, query, limit, mt, cond, backend_len, vsearch, dist, forder) ==
    StorageSearchMessages(TopicEnsureInitialized(w, key, Dimension(mt), 0), key, query,
                          limit, mt, cond, backend_len, vsearch, dist, forder)

\* ------------------------------------------------------------------------
\* Quota (locavox/main.py)
\* ------------------------------------------------------------------------
DEFAULT_MESSAGE_LIMIT == 1000

\* a test_limit query parameter: absent, or an integer
NoTestLimit == [given |-> FALSE, value |-> 0]
TestLimit(n) == [given |-> TRUE, value |-> n]

\* config_helpers.get_message_limit
GetMessageLimit(override) ==
    IF override.given /\ override.value > 0 THEN override.value
    ELSE DEFAULT_MESSAGE_LIMIT

\* current_limit = test_limit if test_limit is not None else get_message_limit()
CurrentLimit(test_limit) ==
    IF test_limit.given THEN test_limit.value ELSE GetMessageLimit(NoTestLimit)

\* a first loop that goes through the whole registry whatever the total is
RECURSIVE CountFirstPassNoEarlyExit(_, _, _, _, _, _, _, _)
CountFirstPassNoEarlyExit(w, keys, i, user_id, limit, total, orders, dim) ==
    IF i > Len(keys)
    THEN [w |-> w, total |-> total, early |-> total >= limit, queried |-> keys]
    ELSE LET r == TopicGetMessagesByUser(w, keys[i], user_id, limit + 1,
                                         orders[PathOf(keys[i])], dim, 0)
         IN  CountFirstPassNoEarlyExit(r.w, keys, i + 1, user_id, limit,
                                       total + Len(r.msgs), orders, dim)

\* the first loop of count_user_messages from the i-th registry entry on;
\* queried: the registry entries whose topic was queried, in the order queried
RECURSIVE CountFirstPass(_, _, _, _, _, _, _, _)
CountFirstPass(w, keys, i, user_id, limit, total, orders, dim) ==
    IF i > Len(keys) THEN [w |-> w, total |-> total, early |-> FALSE, queried |-> keys]
    ELSE LET r == TopicGetMessagesByUser(w, keys[i], user_id, limit + 1,
                                         orders[PathOf(keys[i])], dim, 0)
             total2 == total + Len(r.msgs)
         IN  IF total2 >= limit
             THEN [w |-> r.w, total |-> total2, early |-> TRUE,
                   queried |-> SubSeq(keys, 1, i)]
             ELSE CountFirstPass(r.w, keys, i + 1, user_id, limit, total2, orders, dim)

\* a second loop that counts the messages of every user
RECURSIVE CountManualPassNoFilter(_, _, _, _, _, _, _, _)
CountManualPassNoFilter(w, keys, i, user_id, limit, manual, orders, dim) ==
    IF i > Len(keys) THEN [w |-> w, manual |-> manual, returned |-> FALSE]
    ELSE LET r == TopicGetMessages(w, keys[i], FULL_SCAN_LIMIT,
                                   orders[PathOf(keys[i])], dim, 0)
             manual2 == manual + Len(r.msgs)
         IN  IF manual2 >= limit
             THEN [w |-> r.w, manual |-> manual2, returned |-> TRUE]
             ELSE CountManualPassNoFilter(r.w, keys, i + 1, user_id, limit, manual2,
                                          orders, dim)

\* the second loop: get_messages(1000) per topic, filtered in memory
RECURSIVE CountManualPass(_, _, _, _, _, _, _, _)
CountManualPass(w, keys, i, user_id, limit, manual, orders, dim) ==
    IF i > Len(keys) THEN [w |-> w, manual |-> manual, returned |-> FALSE]
    ELSE LET r == TopicGetMessages(w, keys[i], FULL_SCAN_LIMIT,
                                   orders[PathOf(keys[i])], dim, 0)
             manual2 == manual + Len(ByUser(r.msgs, user_id))
         IN  IF manual2 >= limit
             THEN [w |-> r.w, manual |-> manual2, returned |-> TRUE]
             ELSE CountManualPass(r.w, keys, i + 1, user_id, limit, manual2, orders, dim)

QuotaReachedStrict(count, limit) == count > limit

\* the gate of the add endpoint: user_message_count >= current_limit
QuotaReached(count, limit) == count >= limit

\* count_user_messages: the count and the world after the reads
CountUserMessages(w, keys, user_id, test_limit, orders, dim) ==
    LET current_limit == CurrentLimit(test_limit)
        first == CountFirstPass(w, keys, 1, user_id, current_limit, 0, orders, dim)
        second == CountManualPass(first.w, keys, 1, user_id, current_limit, 0, orders, dim)
        trace == [queried |-> first.queried, first_total |-> first.total,
                  early |-> first.early]
    IN  IF first.early THEN [w |-> first.w, count |-> first.total] @@ trace
        ELSE IF first.total >= current_limit - 2
             THEN IF second.returned
                  THEN [w |-> second.w, count |-> second.manual] @@ trace
                  ELSE [w |-> second.w, count |-> first.total] @@ trace
             ELSE [w |-> first.w, count |-> first.total] @@ trace

\* ------------------------------------------------------------------------
\* State
\* ------------------------------------------------------------------------
VARIABLES
    model_type,      \* config.EMBEDDING_MODEL of the process
    np_random,       \* numpy's global generator state
    gen_log,         \* results of the generate calls made directly
    topics,          \* the registry: keys in insertion order
    init_complete,   \* per topic object: BaseTopic._init_complete
    bg_init,         \* per topic object: the _async_init task is pending
    st_initialized,  \* per topic object: TopicStorage._initialized
    st_table,        \* per topic object: TopicStorage.table is set
    table_exists,    \* per db path: the table exists on disk
    table_rows,      \* per db path: its rows
    messages,        \* per topic object: BaseTopic.messages
    next_id,         \* messages created so far, plus one
    last,            \* the operation that ran last and what it returned
    disk_ok,         \* the database directory can be opened, read and written
    tasks,           \* the requests handed to the event loop, in arrival order
    running,         \* index of the task that holds the event loop, 0 when free
    test_values,     \* config_helpers._test_values
    MAX_MESSAGES_PER_USER,  \* config.MAX_MESSAGES_PER_USER
    registry,        \* topic_registry.topics: its items in insertion order
    topic_id,        \* per topic object: its id attribute
    next_uuid        \* uuids generated so far, plus one

world_vars == <<init_complete, st_initialized, st_table, table_exists, table_rows,
                messages, np_random>>

\* the environment of the store, the event loop and the configuration module
registry_vars == <<registry, topic_id, next_uuid>>

env_vars == <<disk_ok, tasks, running, test_values, MAX_MESSAGES_PER_USER,
              registry, topic_id, next_uuid>>

vars == <<model_type, np_random, gen_log, topics, init_complete, bg_init,
          st_initialized, st_table, table_exists, table_rows, messages, next_id, last,
          disk_ok, tasks, running, test_values, MAX_MESSAGES_PER_USER,
          registry, topic_id, next_uuid>>

W == [init_complete |-> init_complete, st_initialized |-> st_initialized,
      st_table |-> st_table, table_exists |-> table_exists, table_rows |-> table_rows,
      messages |-> messages, np_random |-> np_random]

SetWorld(w) ==
    /\ init_complete' = w.init_complete
    /\ st_initialized' = w.st_initialized
    /\ st_table' = w.st_table
    /\ table_exists' = w.table_exists
    /\ table_rows' = w.table_rows
    /\ messages' = w.messages
    /\ np_random' = w.np_random

\* no topic object constructed, nothing on disk
BlankWorld ==
    [init_complete |-> [k \in TopicKeys |-> FALSE],
     st_initialized |-> [k \in TopicKeys |-> FALSE],
     st_table |-> [k \in TopicKeys |-> FALSE],
     table_exists |-> [p \in Paths |-> FALSE],
     table_rows |-> [p \in Paths |-> << >>],
     messages |-> [k \in TopicKeys |-> << >>],
     np_random |-> NpInit]

\* keys of the test-override dictionary of config_helpers
\* (the second one names no attribute of the config module)
ConfigKeys == {"MAX_MESSAGES_PER_USER", "TEST_KEY"}
\* a key that is not in the dictionary
NoValue == 0
\* config.MAX_MESSAGES_PER_USER as the module defines it
MAX_MESSAGES_PER_USER_DEFAULT == 100

\* the object has no attribute named id (BaseTopic defines none)
NoAttr == "no_attribute"
\* the attribute exists and add_topic has not set it
Unset == "unset"

\* topic_registry at import: topics = {}
RegistryInit ==
    /\ registry = << >>
    /\ topic_id = [k \in TopicKeys |-> NoAttr]
    /\ next_uuid = 1

\* storage available, no request accepted, configuration as imported
EnvInit ==
    /\ RegistryInit
    /\ disk_ok = TRUE
    /\ tasks = << >>
    /\ running = 0
    /\ test_values = [k \in ConfigKeys |-> NoValue]
    /\ MAX_MESSAGES_PER_USER = MAX_MESSAGES_PER_USER_DEFAULT

\* BaseTopic.__init__ outside a running event loop: initialize_sync
ConstructSync(w, key, dim) == TopicInitialize(w, key, dim, 0)

\* no call is in flight
NoOp == [op |-> "none"]
Idle == last = NoOp

\* the caller takes the response of the call it made; calls do not overlap
Deliver ==
    /\ ~Idle
    /\ last' = NoOp
    /\ UNCHANGED <<model_type, np_random, gen_log, topics, init_complete, bg_init,
                   st_initialized, st_table, table_exists, table_rows, messages, next_id>>
    /\ UNCHANGED env_vars

\* BaseTopic._async_init, the task BaseTopic.__init__ schedules inside a
\* running event loop
BackgroundInit(key) ==
    /\ Idle
    /\ bg_init[key]
    /\ SetWorld(TopicInitialize(W, key, Dimension(model_type), 0))
    /\ bg_init' = [bg_init EXCEPT ![key] = FALSE]
    /\ UNCHANGED <<model_type, gen_log, topics, next_id, last>>
    /\ UNCHANGED env_vars

\* ------------------------------------------------------------------------
\* Spec: the add endpoint of locavox/main.py over the registry
\* ------------------------------------------------------------------------
\* messages a run creates
MaxMessages == 4

RequestTopics == {"chat", "topic1"}
RequestUsers == {"u1", "u2"}
RequestLimits == {NoTestLimit, TestLimit(1), TestLimit(2)}
RequestContents == {"ab"}

\* module level of main.py: the two default topics, constructed at import
Init ==
    /\ EnvInit
    /\ model_type \in ModelTypes
    /\ gen_log = << >>
    /\ topics = <<"marketplace", "chat">>
    /\ bg_init = [k \in TopicKeys |-> FALSE]
    /\ next_id = 1
    /\ last = NoOp
    /\ LET dim == Dimension(model_type)
           w == ConstructSync(ConstructSync(BlankWorld, "marketplace", dim), "chat", dim)
       IN  /\ init_complete = w.init_complete
           /\ st_initialized = w.st_initialized
           /\ st_table = w.st_table
           /\ table_exists = w.table_exists
           /\ table_rows = w.table_rows
           /\ messages = w.messages
           /\ np_random = w.np_random

\* an add endpoint that creates the topic before the quota check
PostMessageCreateFirst(topic_name, user_id, content, metadata, test_limit, cond, backend_len) ==
    /\ Idle
    /\ UNCHANGED env_vars
    /\ \E orders \in SortChoices(W, Paths) :
      \E c \in {CountUserMessages(W, topics, user_id, test_limit, orders,
                                  Dimension(model_type))} :
        LET current_limit == CurrentLimit(test_limit)
            is_new == ~SeqContains(topics, topic_name)
            message == [id |-> ToString(next_id), content |-> content, userId |-> user_id,
                        timestamp |-> next_id, metadata |-> metadata]
        IN  IF QuotaReached(c.count, current_limit)
            THEN /\ SetWorld(c.w)
                 /\ last' = [op |-> "post", key |-> topic_name, user |-> user_id,
                             limit |-> current_limit, count |-> c.count, status |-> 429,
                             id |-> "none", registry |-> topics, queried |-> c.queried]
                 /\ topics' = IF is_new THEN Append(topics, topic_name) ELSE topics
                 /\ bg_init' = IF is_new THEN [bg_init EXCEPT ![topic_name] = TRUE]
                               ELSE bg_init
                 /\ UNCHANGED <<model_type, gen_log, next_id>>
            ELSE /\ next_id <= MaxMessages
                 /\ \E r \in {TopicAddMessage(c.w, topic_name, message, model_type, cond,
                                              backend_len)} :
                      /\ SetWorld(r.w)
                      /\ last' = [op |-> "post", key |-> topic_name, user |-> user_id,
                                  limit |-> current_limit, count |-> c.count,
                                  status |-> IF r.ok THEN 200 ELSE 500, id |-> message.id,
                                  registry |-> topics, queried |-> c.queried]
                 /\ topics' = IF is_new THEN Append(topics, topic_name) ELSE topics
                 /\ bg_init' = IF is_new THEN [bg_init EXCEPT ![topic_name] = TRUE]
                               ELSE bg_init
                 /\ next_id' = next_id + 1
                 /\ UNCHANGED <<model_type, gen_log>>

\* POST /topics/{topic_name}/messages (add_message of main.py)
PostMessage(topic_name, user_id, content, metadata, test_limit, cond, backend_len) ==
    /\ Idle
    /\ UNCHANGED env_vars
    /\ \E orders \in SortChoices(W, Paths) :
      \E c \in {CountUserMessages(W, topics, user_id, test_limit, orders,
                                  Dimension(model_type))} :
        LET current_limit == CurrentLimit(test_limit)
            is_new == ~SeqContains(topics, topic_name)
            message == [id |-> ToString(next_id), content |-> content, userId |-> user_id,
                        timestamp |-> next_id, metadata |-> metadata]
        IN  IF QuotaReached(c.count, current_limit)
            THEN /\ SetWorld(c.w)
                 /\ last' = [op |-> "post", key |-> topic_name, user |-> user_id,
                             limit |-> current_limit, count |-> c.count, status |-> 429,
                             id |-> "none", registry |-> topics, queried |-> c.queried]
                 /\ UNCHANGED <<model_type, gen_log, topics, bg_init, next_id>>
            ELSE /\ next_id <= MaxMessages
                 /\ \E r \in {TopicAddMessage(c.w, topic_name, message, model_type, cond,
                                              backend_len)} :
                      /\ SetWorld(r.w)
                      /\ last' = [op |-> "post", key |-> topic_name, user |-> user_id,
                                  limit |-> current_limit, count |-> c.count,
                                  status |-> IF r.ok THEN 200 ELSE 500, id |-> message.id,
                                  registry |-> topics, queried |-> c.queried]
                 /\ topics' = IF is_new THEN Append(topics, topic_name) ELSE topics
                 /\ bg_init' = IF is_new THEN [bg_init EXCEPT ![topic_name] = TRUE]
                               ELSE bg_init
                 /\ next_id' = next_id + 1
                 /\ UNCHANGED <<model_type, gen_log>>

\* list.sort(key=timestamp, reverse=True): stable, items of equal timestamp
\* keep their order; acc is sorted, x goes behind every item not older
RECURSIVE SortInsert(_, _, _)
SortInsert(acc, x, i) ==
    IF i > Len(acc) THEN Append(acc, x)
    ELSE IF acc[i].timestamp < x.timestamp
         THEN SubSeq(acc, 1, i - 1) \o <<x>> \o SubSeq(acc, i, Len(acc))
         ELSE SortInsert(acc, x, i + 1)

RECURSIVE SortNewestFirst(_, _, _)
SortNewestFirst(items, i, acc) ==
    IF i > Len(items) THEN acc
    ELSE SortNewestFirst(items, i + 1, SortInsert(acc, items[i], 1))

PaginateFromStart(result, skip, limit) ==
    SubSeq(result, 1, Min(limit, Len(result)))

\* result[skip : skip + limit] if skip < len(result) else []
Paginate(result, skip, limit) ==
    IF skip < Len(result)
    THEN SubSeq(result, skip + 1, Min(skip + limit, Len(result)))
    ELSE << >>

\* the loop of get_user_messages over the registry from the i-th entry on:
\* get_messages_by_user(user_id, 1000) per topic, each message with its topic
RECURSIVE CollectUserMessages(_, _, _, _, _, _, _)
CollectUserMessages(w, keys, i, user_id, orders, dim, acc) ==
    IF i > Len(keys) THEN [w |-> w, result |-> acc]
    ELSE LET r == TopicGetMessagesByUser(w, keys[i], user_id, FULL_SCAN_LIMIT,
                                         orders[PathOf(keys[i])], dim, 0)
             found == [k \in 1..Len(r.msgs) |->
                          [id |-> r.msgs[k].id, timestamp |-> r.msgs[k].timestamp,
                           userId |-> r.msgs[k].userId, topic |-> keys[i]]]
         IN  CollectUserMessages(r.w, keys, i + 1, user_id, orders, dim, acc \o found)

\* GET /users/{user_id}/messages (get_user_messages of main.py)
GetUserMessages(user_id, skip, limit) ==
    /\ Idle
    /\ \E orders \in SortChoices(W, Paths) :
         \E c \in {CollectUserMessages(W, topics, 1, user_id, orders,
                                       Dimension(model_type), << >>)} :
             /\ SetWorld(c.w)
             /\ last' = [op |-> "user_messages", user |-> user_id, skip |-> skip,
                         limit |-> limit, total |-> Len(c.result),
                         page |-> Paginate(SortNewestFirst(c.result, 1, << >>), skip,
                                           limit)]
    /\ UNCHANGED <<model_type, gen_log, topics, bg_init, next_id>>
    /\ UNCHANGED env_vars

\* query parameters of the endpoint: skip >= 0, 1 <= limit <= 100
PageSkips == {0, 1, 2}
PageLimits == {1, 2}

Next ==
    \/ \E topic_name \in RequestTopics, user_id \in RequestUsers,
          content \in RequestContents, test_limit \in RequestLimits :
          PostMessage(topic_name, user_id, content, << >>, test_limit, "no_dependency",
                      Dimension(model_type))
    \/ \E user_id \in RequestUsers, skip \in PageSkips, limit \in PageLimits :
          GetUserMessages(user_id, skip, limit)
    \/ \E key \in TopicKeys : BackgroundInit(key)
    \/ Deliver

Spec == Init /\ [][Next]_vars

\* ------------------------------------------------------------------------
\* SpecEmbed: calls of EmbeddingGenerator.generate
\* ------------------------------------------------------------------------
EmbedTexts == {"", "ab", "ba", "a b", BigText}

InitEmbed ==
    /\ EnvInit
    /\ model_type \in ModelTypes
    /\ gen_log = << >>
    /\ topics = << >>
    /\ bg_init = [k \in TopicKeys |-> FALSE]
    /\ next_id = 1
    /\ last = NoOp
    /\ init_complete = BlankWorld.init_complete
    /\ st_initialized = BlankWorld.st_initialized
    /\ st_table = BlankWorld.st_table
    /\ table_exists = BlankWorld.table_exists
    /\ table_rows = BlankWorld.table_rows
    /\ messages = BlankWorld.messages
    /\ np_random = NpInit

GenerateCall(text, cond, backend_len) ==
    /\ Idle
    /\ Len(gen_log) < MaxCalls
    /\ LET r == Generate(text, model_type, cond, backend_len, np_random)
       IN  /\ np_random' = r.np
           /\ gen_log' = Append(gen_log, [text |-> text, cond |-> cond, ok |-> r.ok,
                                          via |-> r.via, vec |-> r.vec])
    /\ UNCHANGED <<model_type, topics, bg_init, next_id, init_complete, st_initialized,
                   st_table, table_exists, table_rows, messages, last>>
    /\ UNCHANGED env_vars

NextEmbed ==
    \E text \in EmbedTexts, cond \in BackendConds :
        \E backend_len \in (IF UsesBackend(model_type, cond) THEN BackendLens
                             ELSE {Dimension(model_type)}) :
            GenerateCall(text, cond, backend_len)

SpecEmbed == InitEmbed /\ [][NextEmbed]_vars

\* ------------------------------------------------------------------------
\* Properties of SpecEmbed
\* ------------------------------------------------------------------------

\* C9: generate never fails: every call, whatever the text and the backend
\* condition, returns a vector whose length is the configured dimension of the
\* selected backend.
C9_GenerateTotal ==
    \A i \in DOMAIN gen_log :
        /\ gen_log[i].ok
        /\ gen_log[i].vec.len = Dimension(model_type)

\* C10: two fallback calls whose texts have the same sum of character codes
\* (in particular the same text) return the same result, whatever was embedded
\* in between.
C10_FallbackDeterministic ==
    \A i, j \in DOMAIN gen_log :
        (/\ gen_log[i].via = "fallback"
         /\ gen_log[j].via = "fallback"
         /\ SumOrd(gen_log[i].text) = SumOrd(gen_log[j].text))
        => /\ gen_log[i].ok = gen_log[j].ok
           /\ gen_log[i].vec = gen_log[j].vec

\* the same text embedded twice by the fallback, with a text of another sum
\* embedded by the fallback in between
C10_Witness ==
    \E i, k, j \in DOMAIN gen_log :
        /\ i < k /\ k < j
        /\ \A n \in {i, k, j} : gen_log[n].via = "fallback" /\ gen_log[n].ok
        /\ gen_log[i].text = gen_log[j].text
        /\ SumOrd(gen_log[k].text) # SumOrd(gen_log[i].text)
        /\ gen_log[k].vec # gen_log[i].vec

\* ------------------------------------------------------------------------
\* Properties of Spec
\* ------------------------------------------------------------------------
RECURSIVE CountRows(_, _, _)
\* rows of a table that belong to a user, from row i on
CountRows(rows, user_id, i) ==
    IF i > Len(rows) THEN 0
    ELSE (IF rows[i].userId = user_id THEN 1 ELSE 0) + CountRows(rows, user_id, i + 1)

RECURSIVE SumOver(_, _)
SumOver(f, S) ==
    IF S = {} THEN 0
    ELSE LET x == CHOOSE y \in S : TRUE IN f[x] + SumOver(f, S \ {x})

\* messages of a user persisted in all tables
PersistedOf(rows_of, user_id) ==
    SumOver([p \in Paths |-> CountRows(rows_of[p], user_id, 1)], Paths)

\* no table holds more rows than the window the counting reads
WithinWindow(rows_of) == \A p \in Paths : Len(rows_of[p]) <= FULL_SCAN_LIMIT

WithoutUser(w, user_id) ==
    [w EXCEPT !.table_rows =
        [p \in Paths |->
            FilterIdx(w.table_rows[p],
                      {i \in 1..Len(w.table_rows[p]) : w.table_rows[p][i].userId # user_id}, 1)]]

\* what count_user_messages returns on a world
CountOn(w, user_id, test_limit) ==
    CountUserMessages(w, topics, user_id, test_limit,
                      CHOOSE o \in SortChoices(w, Paths) : TRUE,
                      Dimension(model_type)).count

UserRows(user_id) ==
    UNION {{[id |-> table_rows[PathOf(topics[t])][k].id,
             timestamp |-> table_rows[PathOf(topics[t])][k].timestamp] :
               k \in {n \in 1..Len(table_rows[PathOf(topics[t])]) :
                        table_rows[PathOf(topics[t])][n].userId = user_id}} :
           t \in 1..Len(topics)}

\* page is the slice [skip, skip + limit) of the rows R in an order of
\* descending timestamp
IsPageOf(page, R, skip, limit) ==
    /\ Len(page) = IF skip < Cardinality(R) THEN Min(limit, Cardinality(R) - skip) ELSE 0
    /\ \A k \in 1..Len(page) :
          /\ [id |-> page[k].id, timestamp |-> page[k].timestamp] \in R
          /\ Cardinality({r \in R : r.timestamp > page[k].timestamp}) <= skip + k - 1
          /\ Cardinality({r \in R : r.timestamp >= page[k].timestamp}) >= skip + k
    /\ \A k, n \in 1..Len(page) : k < n => page[k].id # page[n].id

StoreKey == "test_topic"
StorePath == PathOf(StoreKey)

\* add calls of a run
MaxStoreAdds == 3
StoreUsers == {"u1", "u2"}
QueryUsers == {"u1", "' OR '1'='1"}
StoreTimestamps == {1, 2}
StoreLimits == {0, 1, 2}
TierOutcomes == {"answers", "raises"}
DefaultSearchLimit == 10

\* BaseTopic("test_topic") constructed outside a running loop (initialized
\* on the spot) or inside one (initialization scheduled)
InitStore ==
    /\ EnvInit
    /\ model_type \in ModelTypes
    /\ gen_log = << >>
    /\ topics = << >>
    /\ next_id = 1
    /\ last = NoOp
    /\ \E in_loop \in BOOLEAN :
        LET w == IF in_loop THEN BlankWorld
                 ELSE ConstructSync(BlankWorld, StoreKey, Dimension(model_type))
        IN  /\ bg_init = [k \in TopicKeys |-> in_loop /\ k = StoreKey]
            /\ init_complete = w.init_complete
            /\ st_initialized = w.st_initialized
            /\ st_table = w.st_table
            /\ table_exists = w.table_exists
            /\ table_rows = w.table_rows
            /\ messages = w.messages
            /\ np_random = w.np_random

\* length of the vector generate returns at this call
GeneratedLen(cond, backend_len) ==
    IF UsesBackend(model_type, cond) THEN backend_len ELSE Dimension(model_type)

\* await topic.add_message(Message(...))
StoreAdd(content, user_id, timestamp, metadata, cond, backend_len) ==
    /\ Idle
    /\ LET message == [id |-> ToString(next_id), content |-> content, userId |-> user_id,
                       timestamp |-> timestamp, metadata |-> metadata]
       IN  \E r \in {TopicAddMessage(W, StoreKey, message, model_type, cond, backend_len)} :
               /\ SetWorld(r.w)
               /\ last' = [op |-> "add", id |-> message.id, ok |-> r.ok, err |-> r.err,
                           veclen |-> GeneratedLen(cond, backend_len), msgs |-> << >>]
    /\ next_id' = next_id + 1
    /\ UNCHANGED <<model_type, gen_log, topics, bg_init>>
    /\ UNCHANGED env_vars

\* await topic.get_messages(limit)
StoreGetMessages(limit) ==
    /\ Idle
    /\ \E order \in TimestampOrders(table_rows[StorePath]) :
         \E r \in {TopicGetMessages(W, StoreKey, limit, order, Dimension(model_type), 0)} :
             /\ SetWorld(r.w)
             /\ last' = [op |-> "get_messages", limit |-> limit, ok |-> r.ok,
                         msgs |-> r.msgs]
    /\ UNCHANGED <<model_type, gen_log, topics, bg_init, next_id>>
    /\ UNCHANGED env_vars

\* what a get_messages_by_user call leaves for its caller
ByUserResponse(r, via, user_id, limit) ==
    [op |-> "get_by_user", via |-> via, user |-> user_id, limit |-> limit, ok |-> r.ok,
     msgs |-> r.msgs, stage |-> r.stage,
     was_initialized |-> st_initialized[StoreKey] \/ init_complete[StoreKey],
     table_existed |-> table_exists[StorePath]]

\* await topic.get_messages_by_user(user_id, limit)
StoreGetByUserTopic(user_id, limit) ==
    /\ Idle
    /\ \E order \in TimestampOrders(table_rows[StorePath]) :
         \E r \in {TopicGetMessagesByUser(W, StoreKey, user_id, limit, order,
                                          Dimension(model_type), 0)} :
             /\ SetWorld(r.w)
             /\ last' = ByUserResponse(r, "topic", user_id, limit)
    /\ UNCHANGED <<model_type, gen_log, topics, bg_init, next_id>>
    /\ UNCHANGED env_vars

\* await topic.storage.get_messages_by_user(user_id, limit)
StoreGetByUserStorage(user_id, limit, tier1, tier2) ==
    /\ Idle
    /\ \E order \in TimestampOrders(table_rows[StorePath]) :
         \E r \in {StorageGetMessagesByUser(W, StoreKey, user_id, limit, order, tier1, tier2,
                                            Dimension(model_type), 0)} :
             /\ SetWorld(r.w)
             /\ last' = [tier1 |-> tier1, tier2 |-> tier2]
                         @@ ByUserResponse(r, "storage", user_id, limit)
    /\ UNCHANGED <<model_type, gen_log, topics, bg_init, next_id>>
    /\ UNCHANGED env_vars

\* await topic.search_messages(query, limit); the choices of the vector
\* stage are drawn only when no row matches the text
StoreSearch(query, limit, cond, backend_len) ==
    /\ Idle
    /\ LET rows == table_rows[StorePath]
           vector_stage == rows # << >> /\ ExactMatches(rows, query) = {}
           g == Generate(query, model_type, cond, backend_len, np_random)
       IN  \E vsearch \in (IF vector_stage THEN TierOutcomes ELSE {"answers"}) :
             \E dist \in (IF vector_stage /\ g.ok THEN RowDistances(rows, g.vec)
                          ELSE {<< >>}) :
               \E forder \in (IF vector_stage /\ g.ok THEN FinalOrders(rows, query, dist)
                              ELSE {<< >>}) :
                 \E r \in {TopicSearchMessages(W, StoreKey, query, limit, model_type, cond,
                                               backend_len, vsearch, dist, forder)} :
                     /\ SetWorld(r.w)
                     /\ last' = [op |-> "search", query |-> query, limit |-> limit,
                                 ok |-> r.ok, msgs |-> r.msgs, stage |-> r.stage,
                                 np_before |-> np_random, dist |-> dist]
    /\ UNCHANGED <<model_type, gen_log, topics, bg_init, next_id>>
    /\ UNCHANGED env_vars

NextStore ==
    \/ \E user_id \in StoreUsers, timestamp \in StoreTimestamps,
          backend_len \in BackendLens :
          /\ next_id <= MaxStoreAdds
          /\ StoreAdd("ab", user_id, timestamp, << >>, "available", backend_len)
    \/ \E limit \in StoreLimits : StoreGetMessages(limit)
    \/ \E user_id \in QueryUsers, limit \in StoreLimits :
          StoreGetByUserTopic(user_id, limit)
    \/ \E user_id \in QueryUsers, limit \in StoreLimits, tier1 \in TierOutcomes :
          \E tier2 \in (IF tier1 = "raises" THEN TierOutcomes ELSE {"answers"}) :
              StoreGetByUserStorage(user_id, limit, tier1, tier2)
    \/ StoreSearch("ab", DefaultSearchLimit, "no_dependency", Dimension(model_type))
    \/ BackgroundInit(StoreKey)
    \/ Deliver

SpecStore == InitStore /\ [][NextStore]_vars

\* ------------------------------------------------------------------------
\* SpecSearch: adds and default-limit searches on one topic
\* ------------------------------------------------------------------------
\* add calls of a run: one more than the default search limit
MaxSearchAdds == 11
\* searches that reach the vector stage are made on tables up to this size
MaxVectorRows == 2

SearchTemplates ==
    {[content |-> "Ab", metadata |-> << >>],
     [content |-> "b", metadata |-> << <<"k", <<"str", "v">> >> >>]}
SearchQueries == {"Ab", "b", "ab", "", "b c"}
SearchLimits == {1, DefaultSearchLimit}

\* the default configuration: EMBEDDING_MODEL unset
InitSearch ==
    /\ EnvInit
    /\ model_type = "sentence-transformer"
    /\ gen_log = << >>
    /\ topics = << >>
    /\ next_id = 1
    /\ last = NoOp
    /\ bg_init = [k \in TopicKeys |-> FALSE]
    /\ LET w == ConstructSync(BlankWorld, StoreKey, Dimension(model_type))
       IN  /\ init_complete = w.init_complete
           /\ st_initialized = w.st_initialized
           /\ st_table = w.st_table
           /\ table_exists = w.table_exists
           /\ table_rows = w.table_rows
           /\ messages = w.messages
           /\ np_random = w.np_random

NextSearch ==
    \/ \E t \in SearchTemplates :
          /\ next_id <= MaxSearchAdds
          /\ StoreAdd(t.content, "u1", next_id, t.metadata, "no_dependency",
                      Dimension(model_type))
    \/ \E query \in SearchQueries, limit \in SearchLimits :
          /\ \/ Len(table_rows[StorePath]) <= MaxVectorRows
             \/ ExactMatches(table_rows[StorePath], query) # {}
          /\ StoreSearch(query, limit, "no_dependency", Dimension(model_type))
    \/ Deliver

SpecSearch == InitSearch /\ [][NextSearch]_vars

\* ------------------------------------------------------------------------
\* Properties of SpecStore
\* ------------------------------------------------------------------------
StoreRows == table_rows[StorePath]
RowIds == {StoreRows[i].id : i \in 1..Len(StoreRows)}
ReturnedIds == {last.msgs[i].id : i \in 1..Len(last.msgs)}

\* C3: get_messages_by_user(user, limit) returns only messages of that user
\* and at most limit of them, whichever tier answered.
C3_OnlyOwnMessages ==
    last.op = "get_by_user" =>
        /\ \A i \in 1..Len(last.msgs) : last.msgs[i].userId = last.user
        /\ Len(last.msgs) <= last.limit

\* ids of the add calls that raised
FailedIds == {ToString(n) : n \in 1..(next_id - 1)} \ RowIds

\* C4: every stored row has a vector of the configured dimension; an add
\* whose generated vector has another length raises the dimension error and
\* stores nothing, and no later read returns its message.
C4_Dimension ==
    /\ \A i \in 1..Len(StoreRows) : StoreRows[i].vector.len = Dimension(model_type)
    /\ (last.op = "add" /\ last.veclen # Dimension(model_type))
       => /\ ~last.ok
          /\ last.err = "DimensionMismatch"
          /\ last.id \in FailedIds
          /\ \A i \in 1..Len(messages[StoreKey]) : messages[StoreKey][i].id # last.id
    /\ last.op \in {"get_messages", "get_by_user", "search"}
       => ReturnedIds \cap FailedIds = {}

\* a read that returns messages after an add was refused for its vector
C4_Witness ==
    /\ last.op \in {"get_messages", "get_by_user", "search"}
    /\ FailedIds # {}
    /\ last.msgs # << >>
    /\ Len(StoreRows) >= 2

\* C7: get_messages(limit) returns at most limit messages, newest first, and
\* they are the limit newest stored rows.
C7_GetRecent ==
    last.op = "get_messages" =>
        /\ last.ok
        /\ Len(last.msgs) = Min(last.limit, Len(StoreRows))
        /\ \A i, j \in 1..Len(last.msgs) :
              i < j => /\ last.msgs[i].timestamp >= last.msgs[j].timestamp
                       /\ last.msgs[i].id # last.msgs[j].id
        /\ \A i \in 1..Len(last.msgs) :
              \E k \in 1..Len(StoreRows) :
                  /\ StoreRows[k].id = last.msgs[i].id
                  /\ StoreRows[k].timestamp = last.msgs[i].timestamp
                  /\ StoreRows[k].content = last.msgs[i].content
                  /\ StoreRows[k].userId = last.msgs[i].userId
        /\ \A k \in 1..Len(StoreRows) :
              StoreRows[k].id \notin ReturnedIds
              => \A i \in 1..Len(last.msgs) :
                     last.msgs[i].timestamp >= StoreRows[k].timestamp

\* a truncated read of a table whose newest row was not stored last
C7_Witness ==
    /\ last.op = "get_messages"
    /\ Len(StoreRows) = 3
    /\ Len(last.msgs) = 2
    /\ StoreRows[1].timestamp > StoreRows[3].timestamp
    /\ last.msgs[1].timestamp > last.msgs[2].timestamp

\* C8: get_messages_by_user on a topic whose store is empty, or was never
\* initialized, returns the empty sequence without raising, and leaves the
\* store initialized with its table created.
C8_EmptyByUser ==
    (last.op = "get_by_user" /\ StoreRows = << >>)
    => /\ last.ok
       /\ last.msgs = << >>
       /\ st_initialized[StoreKey]
       /\ st_table[StoreKey]
       /\ table_exists[StorePath]

\* the call found the store never initialized and no table on disk
C8_Witness ==
    /\ last.op = "get_by_user"
    /\ last.via = "storage"
    /\ ~last.was_initialized
    /\ ~last.table_existed
    /\ last.ok /\ last.msgs = << >>
    /\ st_initialized[StoreKey] /\ table_exists[StorePath]

\* ------------------------------------------------------------------------
\* Properties of SpecSearch
\* ------------------------------------------------------------------------
\* the query, compared case-insensitively, is a substring of the content
SubstringTable ==
    [query \in Strings, content \in Strings |->
        StrIn(Lower(Chars(query)), Lower(Chars(content)))]
SubstringOf(query, content) == SubstringTable[query, content]

IsExactMatch(content, query) == ScoreGt(TextScoreOf[content, query], ExactMatchThreshold)

\* stored rows before the row with this id that the query matches exactly
EarlierMatches(id, query) ==
    LET pos == CHOOSE k \in 1..Len(StoreRows) : StoreRows[k].id = id
    IN  Cardinality({k \in 1..(pos - 1) : IsExactMatch(StoreRows[k].content, query)})

SameMessage(r, m) ==
    /\ r.id = m.id
    /\ r.content = m.content
    /\ r.userId = m.userId
    /\ r.metadata = m.metadata

\* C5 as stated: whatever the store held, a search for the content of a
\* message added before, at the default limit, returns that message with its
\* id, content, userId and metadata.
C5_RoundTripAnyStore ==
    (last.op = "search" /\ last.limit = DefaultSearchLimit)
    => \A i \in 1..Len(messages[StoreKey]) :
           messages[StoreKey][i].content = last.query
           => \E j \in 1..Len(last.msgs) : SameMessage(last.msgs[j], messages[StoreKey][i])

\* C5: a search for the content of a message added before, at the default
\* limit, returns that message with its id, content, userId and metadata,
\* provided fewer than the limit rows stored before it match the query too.
C5_RoundTrip ==
    (last.op = "search" /\ last.limit = DefaultSearchLimit)
    => \A i \in 1..Len(messages[StoreKey]) :
           (/\ messages[StoreKey][i].content = last.query
            /\ EarlierMatches(messages[StoreKey][i].id, last.query) < DefaultSearchLimit)
           => \E j \in 1..Len(last.msgs) : SameMessage(last.msgs[j], messages[StoreKey][i])

\* the message comes back with its metadata from a table that holds others
C5_Witness ==
    /\ last.op = "search"
    /\ Len(StoreRows) >= 3
    /\ \E i \in 1..Len(messages[StoreKey]) :
          /\ i > 1
          /\ messages[StoreKey][i].content = last.query
          /\ messages[StoreKey][i].metadata # << >>
          /\ \E j \in 1..Len(last.msgs) : SameMessage(last.msgs[j], messages[StoreKey][i])

\* the text score of every content that contains the query
SubstringScoresExact ==
    \A content \in Strings, query \in Strings :
        SubstringOf(query, content) => IsExactMatch(content, query)

\* C6 as stated: a content that contains the query scores above 0.8, and a
\* search for the query returns every stored message with such a content,
\* without running the vector stage.
C6_SubstringAnyStore ==
    /\ SubstringScoresExact
    /\ last.op = "search"
       => \A k \in 1..Len(StoreRows) :
              SubstringOf(last.query, StoreRows[k].content)
              => /\ last.stage = "exact"
                 /\ np_random = last.np_before
                 /\ StoreRows[k].id \in ReturnedIds

\* C6: a content that contains the query scores above 0.8, and a search for
\* the query answers from the text stage, without running the vector stage,
\* and returns a stored message with such a content when fewer than limit
\* rows stored before it match the query too.
C6_Substring ==
    /\ SubstringScoresExact
    /\ last.op = "search"
       => \A k \in 1..Len(StoreRows) :
              SubstringOf(last.query, StoreRows[k].content)
              => /\ last.stage = "exact"
                 /\ np_random = last.np_before
                 /\ EarlierMatches(StoreRows[k].id, last.query) < last.limit
                    => StoreRows[k].id \in ReturnedIds

\* a query in another case than the content it is found in, and a row it
\* does not match in the same table
C6_Witness ==
    /\ last.op = "search"
    /\ last.query = "ab"
    /\ last.stage = "exact"
    /\ \E k, n \in 1..Len(StoreRows) :
          /\ StoreRows[k].content = "Ab"
          /\ StoreRows[k].id \in ReturnedIds
          /\ StoreRows[n].content = "b"
          /\ StoreRows[n].id \notin ReturnedIds

\* ------------------------------------------------------------------------
\* The store when its database directory can be unavailable
\* ------------------------------------------------------------------------
\* `not self.table`: the handle is unset; for the handle of an empty table
\* the truth value is that of the table object, drawn as `falsy`
TableUnset(w, key, falsy) ==
    \/ ~w.st_table[key]
    \/ (falsy /\ w.table_rows[PathOf(key)] = << >>)

\* an initialize whose handler leaves _initialized as it was
StorageInitializeFKeepFlag(w, key, dim, now, disk) ==
    IF disk
    THEN [w |-> StorageInitialize(w, key, dim, now), ok |-> TRUE]
    ELSE [w |-> w, ok |-> FALSE]

\* TopicStorage.initialize: connecting, opening or creating raises when the
\* directory is unavailable; the handler clears _initialized and re-raises
StorageInitializeF(w, key, dim, now, disk) ==
    IF disk
    THEN [w |-> StorageInitialize(w, key, dim, now), ok |-> TRUE]
    ELSE [w |-> [w EXCEPT !.st_initialized[key] = FALSE], ok |-> FALSE]

\* an _ensure_initialized that catches the error of initialize
EnsureInitializedFSwallow(w, key, dim, now, disk, falsy) ==
    IF ~w.st_initialized[key] \/ TableUnset(w, key, falsy)
    THEN [w |-> StorageInitializeF(w, key, dim, now, disk).w, ok |-> TRUE]
    ELSE [w |-> w, ok |-> TRUE]

\* TopicStorage._ensure_initialized
EnsureInitializedF(w, key, dim, now, disk, falsy) ==
    IF ~w.st_initialized[key] \/ TableUnset(w, key, falsy)
    THEN StorageInitializeF(w, key, dim, now, disk)
    ELSE [w |-> w, ok |-> TRUE]

\* BaseTopic.initialize: catches the error and returns False (ok)
TopicInitializeF(w, key, dim, now, disk) ==
    LET r == StorageInitializeF(w, key, dim, now, disk)
    IN  [w |-> IF r.ok THEN [r.w EXCEPT !.init_complete[key] = TRUE] ELSE r.w,
         ok |-> r.ok]

\* the guard at the head of every BaseTopic operation
TopicEnsureInitializedF(w, key, dim, now, disk, falsy) ==
    IF ~w.init_complete[key] \/ TableUnset(w, key, falsy)
    THEN TopicInitializeF(w, key, dim, now, disk).w
    ELSE w

\* BaseTopic._async_init: _init_complete is set whatever initialize returned
AsyncInitF(w, key, dim, now, disk) ==
    [TopicInitializeF(w, key, dim, now, disk).w EXCEPT !.init_complete[key] = TRUE]

\* BaseTopic.add_message: a failed initialization and a failed table.add
\* are raised to the caller
TopicAddMessageF(w, key, msg, mt, cond, backend_len, disk, falsy) ==
    LET w1 == TopicEnsureInitializedF(w, key, Dimension(mt), msg.timestamp, disk, falsy)
        e == EnsureInitializedF(w1, key, Dimension(mt), msg.timestamp, disk, falsy)
        g == Generate(msg.content, mt, cond, backend_len, e.w.np_random)
    IN  IF ~e.ok THEN Res(e.w, FALSE, "StorageError", << >>, "init")
        ELSE IF ~disk
             THEN Res([e.w EXCEPT !.np_random = g.np], FALSE, "StorageError", << >>, "add")
             ELSE TopicAddMessage(e.w, key, msg, mt, cond, backend_len)

\* BaseTopic.get_messages: _ensure_initialized is awaited before the try
\* block of TopicStorage.get_messages; a scan that raises is answered []
TopicGetMessagesF(w, key, limit, order, dim, now, disk, falsy) ==
    LET w1 == TopicEnsureInitializedF(w, key, dim, now, disk, falsy)
        e == EnsureInitializedF(w1, key, dim, now, disk, falsy)
    IN  IF ~e.ok THEN Res(e.w, FALSE, "StorageError", << >>, "init")
        ELSE IF ~disk THEN Res(e.w, TRUE, "none", << >>, "scan_failed")
             ELSE TopicGetMessages(e.w, key, limit, order, dim, now)

\* BaseTopic.get_messages_by_user: the handler of the failed direct query
\* calls get_messages(1000), whose error leaves the handler
TopicGetMessagesByUserF(w, key, user_id, limit, order, dim, now, disk, falsy) ==
    LET all == TopicGetMessagesF(w, key, FULL_SCAN_LIMIT, order, dim, now, disk, falsy)
    IN  IF ~all.ok THEN all
        ELSE Res(all.w, TRUE, "none", Prefix(ByUser(all.msgs, user_id), limit), "fallback")

\* TopicStorage.get_messages_by_user: with the directory unavailable both
\* filtered queries raise and the scan of method 3 answers []
StorageGetMessagesByUserF(w, key, user_id, limit, order, tier1, tier2, dim, now, disk, falsy) ==
    LET e == EnsureInitializedF(w, key, dim, now, disk, falsy)
    IN  IF ~e.ok THEN Res(e.w, FALSE, "StorageError", << >>, "init")
        ELSE IF ~disk THEN Res(e.w, TRUE, "none", << >>, "method3")
             ELSE StorageGetMessagesByUser(e.w, key, user_id, limit, order, tier1, tier2,
                                           dim, now)

\* BaseTopic.search_messages on a table whose rows all match the query
TopicSearchMessagesF(w, key, query, limit, mt, cond, backend_len, disk, falsy) ==
    LET w1 == TopicEnsureInitializedF(w, key, Dimension(mt), 0, disk, falsy)
        e == EnsureInitializedF(w1, key, Dimension(mt), 0, disk, falsy)
    IN  IF ~e.ok THEN Res(e.w, FALSE, "StorageError", << >>, "init")
        ELSE IF ~disk THEN Res(e.w, TRUE, "none", << >>, "scan_failed")
             ELSE TopicSearchMessages(e.w, key, query, limit, mt, cond, backend_len,
                                      "answers", << >>, << >>)

\* ------------------------------------------------------------------------
\* SpecFault: one topic object whose database directory comes and goes
\* ------------------------------------------------------------------------
\* add calls of a run
MaxFaultAdds == 2
FaultLimits == {1, 2}

\* TopicStorage._initialized and TopicStorage.table are both set
Ready(key) == st_initialized[key] /\ st_table[key]

\* BaseTopic("test_topic") constructed outside a running loop (initialized on
\* the spot, the error of an unavailable directory caught by __init__) or
\* inside one (initialization scheduled)
InitFault ==
    /\ model_type \in ModelTypes
    /\ gen_log = << >>
    /\ topics = << >>
    /\ next_id = 1
    /\ last = NoOp
    /\ disk_ok \in BOOLEAN
    /\ tasks = << >>
    /\ running = 0
    /\ test_values = [k \in ConfigKeys |-> NoValue]
    /\ MAX_MESSAGES_PER_USER = MAX_MESSAGES_PER_USER_DEFAULT
    /\ RegistryInit
    /\ \E in_loop \in BOOLEAN :
        LET w == IF in_loop THEN BlankWorld
                 ELSE TopicInitializeF(BlankWorld, StoreKey, Dimension(model_type), 0,
                                       disk_ok).w
        IN  /\ bg_init = [k \in TopicKeys |-> in_loop /\ k = StoreKey]
            /\ init_complete = w.init_complete
            /\ st_initialized = w.st_initialized
            /\ st_table = w.st_table
            /\ table_exists = w.table_exists
            /\ table_rows = w.table_rows
            /\ messages = w.messages
            /\ np_random = w.np_random

\* the directory becomes unavailable, or available again
DiskFails ==
    /\ Idle
    /\ disk_ok
    /\ disk_ok' = FALSE
    /\ UNCHANGED <<model_type, np_random, gen_log, topics, init_complete, bg_init,
                   st_initialized, st_table, table_exists, table_rows, messages, next_id,
                   last, tasks, running, test_values, MAX_MESSAGES_PER_USER,
                   registry, topic_id, next_uuid>>

DiskRecovers ==
    /\ Idle
    /\ ~disk_ok
    /\ disk_ok' = TRUE
    /\ UNCHANGED <<model_type, np_random, gen_log, topics, init_complete, bg_init,
                   st_initialized, st_table, table_exists, table_rows, messages, next_id,
                   last, tasks, running, test_values, MAX_MESSAGES_PER_USER,
                   registry, topic_id, next_uuid>>

\* what a call leaves for its caller: ok = FALSE when it raised
FaultResponse(op, r) ==
    [op |-> op, ok |-> r.ok, err |-> r.err, msgs |-> r.msgs, stage |-> r.stage,
     disk |-> disk_ok, ready_before |-> Ready(StoreKey)]

\* await topic.add_message(Message(...))
FaultAdd(user_id) ==
    /\ Idle
    /\ next_id <= MaxFaultAdds
    /\ LET message == [id |-> ToString(next_id), content |-> "ab", userId |-> user_id,
                       timestamp |-> next_id, metadata |-> << >>]
       IN  \E falsy \in BOOLEAN :
             \E r \in {TopicAddMessageF(W, StoreKey, message, model_type, "no_dependency",
                                        Dimension(model_type), disk_ok, falsy)} :
                 /\ SetWorld(r.w)
                 /\ last' = FaultResponse("add", r)
    /\ next_id' = next_id + 1
    /\ UNCHANGED <<model_type, gen_log, topics, bg_init>>
    /\ UNCHANGED env_vars

\* await topic.get_messages(limit)
FaultGetMessages(limit) ==
    /\ Idle
    /\ \E falsy \in BOOLEAN, order \in TimestampOrders(table_rows[StorePath]) :
         \E r \in {TopicGetMessagesF(W, StoreKey, limit, order, Dimension(model_type), 0,
                                     disk_ok, falsy)} :
             /\ SetWorld(r.w)
             /\ last' = FaultResponse("get_messages", r)
    /\ UNCHANGED <<model_type, gen_log, topics, bg_init, next_id>>
    /\ UNCHANGED env_vars

\* await topic.get_messages_by_user(user_id, limit)
FaultGetByUserTopic(user_id, limit) ==
    /\ Idle
    /\ \E falsy \in BOOLEAN, order \in TimestampOrders(table_rows[StorePath]) :
         \E r \in {TopicGetMessagesByUserF(W, StoreKey, user_id, limit, order,
                                           Dimension(model_type), 0, disk_ok, falsy)} :
             /\ SetWorld(r.w)
             /\ last' = FaultResponse("get_by_user", r)
    /\ UNCHANGED <<model_type, gen_log, topics, bg_init, next_id>>
    /\ UNCHANGED env_vars

\* await topic.storage.get_messages_by_user(user_id, limit)
FaultGetByUserStorage(user_id, limit, tier1, tier2) ==
    /\ Idle
    /\ \E falsy \in BOOLEAN, order \in TimestampOrders(table_rows[StorePath]) :
         \E r \in {StorageGetMessagesByUserF(W, StoreKey, user_id, limit, order, tier1,
                                             tier2, Dimension(model_type), 0, disk_ok,
                                             falsy)} :
             /\ SetWorld(r.w)
             /\ last' = FaultResponse("get_by_user", r)
    /\ UNCHANGED <<model_type, gen_log, topics, bg_init, next_id>>
    /\ UNCHANGED env_vars

\* await topic.search_messages("ab")
FaultSearch ==
    /\ Idle
    /\ \E falsy \in BOOLEAN :
         \E r \in {TopicSearchMessagesF(W, StoreKey, "ab", DefaultSearchLimit, model_type,
                                        "no_dependency", Dimension(model_type), disk_ok,
                                        falsy)} :
             /\ SetWorld(r.w)
             /\ last' = FaultResponse("search", r)
    /\ UNCHANGED <<model_type, gen_log, topics, bg_init, next_id>>
    /\ UNCHANGED env_vars

\* await topic.initialize(): returns True or False, never raises
FaultInitialize ==
    /\ Idle
    /\ \E r \in {TopicInitializeF(W, StoreKey, Dimension(model_type), 0, disk_ok)} :
         /\ SetWorld(r.w)
         /\ last' = FaultResponse("initialize",
                        Res(r.w, TRUE, "none", << >>,
                            IF r.ok THEN "returned_true" ELSE "returned_false"))
    /\ UNCHANGED <<model_type, gen_log, topics, bg_init, next_id>>
    /\ UNCHANGED env_vars

\* the scheduled BaseTopic._async_init runs
FaultBackgroundInit ==
    /\ Idle
    /\ bg_init[StoreKey]
    /\ SetWorld(AsyncInitF(W, StoreKey, Dimension(model_type), 0, disk_ok))
    /\ bg_init' = [bg_init EXCEPT ![StoreKey] = FALSE]
    /\ UNCHANGED <<model_type, gen_log, topics, next_id, last>>
    /\ UNCHANGED env_vars

NextFault ==
    \/ DiskFails
    \/ DiskRecovers
    \/ \E user_id \in StoreUsers : FaultAdd(user_id)
    \/ \E limit \in FaultLimits : FaultGetMessages(limit)
    \/ \E limit \in FaultLimits : FaultGetByUserTopic("u1", limit)
    \/ \E limit \in FaultLimits, tier1 \in TierOutcomes :
          FaultGetByUserStorage("u1", limit, tier1, "answers")
    \/ FaultSearch
    \/ FaultInitialize
    \/ FaultBackgroundInit
    \/ Deliver

SpecFault == InitFault /\ [][NextFault]_vars

\* ------------------------------------------------------------------------
\* Properties of SpecFault
\* ------------------------------------------------------------------------
ReadOps == {"get_messages", "get_by_user", "search"}

\* C11: a read operation (search, get_messages, get_messages_by_user) never
\* raises to its caller: when the store cannot be opened or a scan fails it
\* returns a partial or empty result.
C11_ReadsNeverRaise ==
    last.op \in ReadOps => last.ok

\* ------------------------------------------------------------------------
\* SpecConfig: the test overrides of locavox/config_helpers.py
\* ------------------------------------------------------------------------
ConfigValues == {1, 2, 5}
ConfigOverrides == {NoTestLimit, TestLimit(0), TestLimit(2)}

\* hasattr(config, key)
HasConfigAttr(key) == key = "MAX_MESSAGES_PER_USER"

InitConfig ==
    /\ EnvInit
    /\ model_type = "sentence-transformer"
    /\ gen_log = << >>
    /\ topics = << >>
    /\ bg_init = [k \in TopicKeys |-> FALSE]
    /\ next_id = 1
    /\ last = NoOp
    /\ init_complete = BlankWorld.init_complete
    /\ st_initialized = BlankWorld.st_initialized
    /\ st_table = BlankWorld.st_table
    /\ table_exists = BlankWorld.table_exists
    /\ table_rows = BlankWorld.table_rows
    /\ messages = BlankWorld.messages
    /\ np_random = NpInit

\* set_test_value(key, value)
SetTestValue(key, value) ==
    /\ Idle
    /\ test_values' = [test_values EXCEPT ![key] = value]
    /\ MAX_MESSAGES_PER_USER' =
          IF HasConfigAttr(key) THEN value ELSE MAX_MESSAGES_PER_USER
    /\ last' = [op |-> "set_test_value", key |-> key, value |-> value]
    /\ UNCHANGED <<model_type, np_random, gen_log, topics, init_complete, bg_init,
                   st_initialized, st_table, table_exists, table_rows, messages, next_id,
                   disk_ok, tasks, running,
                   registry, topic_id, next_uuid>>

\* reset_test_values()
ResetTestValues ==
    /\ Idle
    /\ test_values' = [k \in ConfigKeys |-> NoValue]
    /\ MAX_MESSAGES_PER_USER' =
          IF test_values["MAX_MESSAGES_PER_USER"] # NoValue
          THEN MAX_MESSAGES_PER_USER_DEFAULT
          ELSE MAX_MESSAGES_PER_USER
    /\ last' = [op |-> "reset_test_values"]
    /\ UNCHANGED <<model_type, np_random, gen_log, topics, init_complete, bg_init,
                   st_initialized, st_table, table_exists, table_rows, messages, next_id,
                   disk_ok, tasks, running,
                   registry, topic_id, next_uuid>>

\* config.MAX_MESSAGES_PER_USER = value, as the test fixture assigns it
SetConfigMax(value) ==
    /\ Idle
    /\ MAX_MESSAGES_PER_USER' = value
    /\ last' = [op |-> "set_config", value |-> value]
    /\ UNCHANGED <<model_type, np_random, gen_log, topics, init_complete, bg_init,
                   st_initialized, st_table, table_exists, table_rows, messages, next_id,
                   disk_ok, tasks, running, test_values,
                   registry, topic_id, next_uuid>>

\* get_message_limit(override)
GetMessageLimitCall(override) ==
    /\ Idle
    /\ last' = [op |-> "get_message_limit", override |-> override,
                value |-> GetMessageLimit(override)]
    /\ UNCHANGED <<model_type, np_random, gen_log, topics, init_complete, bg_init,
                   st_initialized, st_table, table_exists, table_rows, messages, next_id>>
    /\ UNCHANGED env_vars

NextConfig ==
    \/ \E key \in ConfigKeys, value \in ConfigValues : SetTestValue(key, value)
    \/ ResetTestValues
    \/ \E value \in ConfigValues \cup {MAX_MESSAGES_PER_USER_DEFAULT} : SetConfigMax(value)
    \/ \E override \in ConfigOverrides : GetMessageLimitCall(override)
    \/ Deliver

SpecConfig == InitConfig /\ [][NextConfig]_vars

\* C13: once set_test_value("MAX_MESSAGES_PER_USER", v) was called,
\* get_message_limit() without an override returns v, the configured per-user
\* maximum; after reset_test_values() it returns the default limit again.
C13_LimitFollowsConfig ==
    (last.op = "get_message_limit" /\ ~last.override.given)
    => IF test_values["MAX_MESSAGES_PER_USER"] # NoValue
       THEN last.value = test_values["MAX_MESSAGES_PER_USER"]
       ELSE last.value = DEFAULT_MESSAGE_LIMIT

\* ------------------------------------------------------------------------
\* the effect of an add request on the tables (Spec)
\* ------------------------------------------------------------------------
\* C21: an add request answered 200 appends exactly one row, the row of its
\* message, to the table of its topic: the rows stored before are unchanged
\* and so are the tables of all other topics.
C21_AppendsOneRow ==
    [][(Idle /\ last'.op = "post" /\ last'.status = 200)
       => LET path == PathOf(last'.key)
              n == Len(table_rows[path])
          IN  /\ Len(table_rows'[path]) = n + 1
              /\ SubSeq(table_rows'[path], 1, n) = table_rows[path]
              /\ table_rows'[path][n + 1].id = last'.id
              /\ table_rows'[path][n + 1].userId = last'.user
              /\ \A q \in Paths \ {path} : table_rows'[q] = table_rows[q]
      ]_vars

\* a third message stored in a topic while another topic holds a row
C21_Witness ==
    /\ last.op = "post" /\ last.status = 200 /\ last.key = "topic1"
    /\ Len(table_rows["topic1"]) = 3
    /\ table_rows["topic1"][3].id = last.id
    /\ Len(table_rows["neighborhood_hub_chat"]) = 1

\* ------------------------------------------------------------------------
\* the count behind the gate of the add endpoint (Spec)
\* ------------------------------------------------------------------------
\* what get_messages_by_user(user_id, limit + 1) finds in the table of a
\* registry entry: the user's rows among the newest rows the scan reads, cut
\* to limit + 1
TopicCount(key, user_id, limit) ==
    LET rows == table_rows[PathOf(key)]
        newest == SubSeq(rows, Len(rows) - Min(Len(rows), FULL_SCAN_LIMIT) + 1, Len(rows))
    IN  Min(CountRows(newest, user_id, 1), limit + 1)

\* the running total after the first n entries of a registry
RECURSIVE RunningTotal(_, _, _, _)
RunningTotal(keys, n, user_id, limit) ==
    IF n = 0 THEN 0
    ELSE RunningTotal(keys, n - 1, user_id, limit) + TopicCount(keys[n], user_id, limit)

\* C22: the first pass of the count queries the topics in registry order,
\* each for the user's messages with limit + 1; it stops at the first topic
\* after which the running total has reached the limit, the count is that
\* running total, and no later topic of the registry is queried.
C22_FirstPass ==
    [][(Idle /\ last'.op = "post")
       => LET q == last'.queried
              n == Len(q)
              total(j) == RunningTotal(topics, j, last'.user, last'.limit)
          IN  /\ n <= Len(topics)
              /\ q = SubSeq(topics, 1, n)
              /\ \A j \in 0..(n - 1) : total(j) < last'.limit
              /\ total(n) >= last'.limit => last'.count = total(n)
              /\ n < Len(topics) => total(n) >= last'.limit
      ]_vars

\* the count stops at the second of three registry entries and the third
\* topic, which holds a message of the user, is not queried
C22_Witness ==
    /\ last.op = "post" /\ last.status = 429
    /\ last.registry = <<"marketplace", "chat", "topic1">>
    /\ last.queried = <<"marketplace", "chat">>
    /\ CountRows(table_rows["topic1"], last.user, 1) >= 1

C28_RejectedChangesNothing ==
    [][(Idle /\ last'.op = "post" /\ last'.status = 429)
       => /\ table_rows' = table_rows
          /\ messages' = messages
          /\ topics' = topics
          /\ bg_init' = bg_init
          /\ last'.id = "none"
      ]_vars

\* a request for a topic that is not in the registry, rejected on the user's
\* messages in another topic
C28_Witness ==
    /\ last.op = "post" /\ last.status = 429
    /\ last.key = "topic1"
    /\ ~SeqContains(topics, "topic1")
    /\ table_rows["topic1"] = << >>
    /\ CountRows(table_rows["neighborhood_hub_chat"], last.user, 1) >= last.limit

\* ------------------------------------------------------------------------
\* the life cycle of the store (SpecFault)
\* ------------------------------------------------------------------------
\* the operations that go through _ensure_initialized
StoreOps == {"add", "get_messages", "get_by_user", "search"}

\* the step is a call of initialize: BaseTopic.initialize or the scheduled
\* _async_init
InitializeStep ==
    \/ Idle /\ last'.op = "initialize"
    \/ bg_init[StoreKey] /\ ~bg_init'[StoreKey]

\* C18 as stated: the store only moves towards Ready; a store that is Ready
\* stays Ready.
C18_OnlyForward ==
    [][Ready(StoreKey) => Ready(StoreKey)']_vars

\* C18: an operation that finds the store not Ready while the storage is
\* unavailable raises and leaves the store uninitialized; every operation
\* made while the storage is available, whatever failed before, leaves the
\* store Ready and succeeds; and a Ready store leaves Ready only through an
\* initialization that fails (which an explicit or scheduled initialize, or
\* the guard on an empty table, can run on a Ready store).
C18_Lifecycle ==
    [][/\ (Idle /\ last'.op \in StoreOps /\ ~Ready(StoreKey) /\ ~disk_ok)
          => (/\ ~last'.ok /\ last'.err = "StorageError" /\ last'.stage = "init"
              /\ ~st_initialized'[StoreKey])
       /\ (Idle /\ last'.op \in StoreOps /\ disk_ok)
          => (last'.ok /\ Ready(StoreKey)')
       /\ (Idle /\ last'.op = "initialize")
          => /\ (last'.stage = "returned_true") = disk_ok
             /\ Ready(StoreKey)' = disk_ok
       /\ (Ready(StoreKey) /\ ~Ready(StoreKey)')
          => (/\ ~disk_ok
              /\ \/ InitializeStep
                 \/ (Idle /\ last'.op \in StoreOps /\ table_rows[StorePath] = << >>))
      ]_vars

\* the initialization run by the constructor failed, the storage became
\* available, and a later call on the storage object brought the store to
\* Ready
C18_Witness ==
    /\ ~init_complete[StoreKey] /\ ~bg_init[StoreKey]
    /\ last.op = "get_by_user" /\ last.ok
    /\ ~last.ready_before /\ last.disk
    /\ Ready(StoreKey)

C29_TableOnlyWhenReady ==
    [][(Idle /\ last'.op \in StoreOps)
       => /\ last'.stage # "init" => Ready(StoreKey)'
          /\ last'.stage = "init"
             => (/\ ~last'.ok
                 /\ ~disk_ok
                 /\ table_rows' = table_rows
                 /\ messages' = messages)
          /\ (~Ready(StoreKey) /\ ~disk_ok) => last'.stage = "init"
          /\ Len(table_rows'[StorePath]) > Len(table_rows[StorePath])
             => (last'.op = "add" /\ last'.ok /\ disk_ok /\ Ready(StoreKey)')
      ]_vars

\* an add on a store that holds a row and lost Ready in a failed
\* initialization ends with the error and the table still holds that one row
C29_Witness ==
    /\ last.op = "add" /\ ~last.ok /\ last.stage = "init"
    /\ ~last.ready_before
    /\ ~Ready(StoreKey)
    /\ Len(table_rows[StorePath]) = 1
    /\ Len(messages[StoreKey]) = 1

\* ------------------------------------------------------------------------
\* the two stages of search_messages (SpecSearch)
\* ------------------------------------------------------------------------
\* ids of the returned messages, in the order returned
ReturnedIdSeq == [i \in 1..Len(last.msgs) |-> last.msgs[i].id]

IdSeq(rows) == [i \in 1..Len(rows) |-> rows[i].id]

\* the stored rows whose text score is above 0.8, in storage order
ExactRows(query) == FilterIdx(StoreRows, ExactMatches(StoreRows, query), 1)

\* C16: when some stored message scores above 0.8 on the query, the search
\* returns the first limit such messages in storage order and no other
\* message, and generates no embedding (the vector stage is not run).
C16_ExactShortCircuit ==
    (last.op = "search" /\ ExactMatches(StoreRows, last.query) # {})
    => /\ last.ok
       /\ last.stage = "exact"
       /\ ReturnedIdSeq = IdSeq(Prefix(ExactRows(last.query), last.limit))
       /\ \A i \in 1..Len(last.msgs) : IsExactMatch(last.msgs[i].content, last.query)
       /\ np_random = last.np_before

\* more rows match than the limit, a row that does not match is stored
\* before a returned one, and exactly limit messages come back
C16_Witness ==
    /\ last.op = "search" /\ last.stage = "exact"
    /\ Cardinality(ExactMatches(StoreRows, last.query)) > last.limit
    /\ Len(last.msgs) = last.limit
    /\ \E k \in 1..Len(StoreRows) :
          /\ ~IsExactMatch(StoreRows[k].content, last.query)
          /\ \E i \in 1..Len(StoreRows) : i > k /\ StoreRows[i].id \in ReturnedIds

\* the final score of each stored row computed from the distance of that
\* row's own vector
OwnFinalScores(rows, query, dist) ==
    [i \in 1..Len(rows) |-> FinalScore(TextScoreOf[rows[i].content, query], dist[i])]

\* C17: when no stored message scores above 0.8 on the query and the vector
\* stage answers, the search returns, in descending order of final score, the
\* up to limit best messages among those whose final score reaches the
\* similarity threshold, the final score of a message being 0.7 times its
\* text score plus 0.3 times (1 - distance of its own vector to the query).
C17_VectorRanking ==
    (last.op = "search" /\ last.stage = "vector")
    => LET own == OwnFinalScores(StoreRows, last.query, last.dist)
           kept == {i \in 1..Len(StoreRows) : ScoreGe(own[i], SimilarityThreshold)}
       IN  \E o \in OrdersBy(own, kept) :
               ReturnedIdSeq = Prefix([i \in 1..Len(o) |-> StoreRows[o[i]].id], last.limit)

\* ------------------------------------------------------------------------
\* the methods of TopicStorage.get_messages_by_user (SpecStore)
\* ------------------------------------------------------------------------
\* the answer in flight comes from TopicStorage.get_messages_by_user
ByUserStorageAnswer == last.op = "get_by_user" /\ last.via = "storage"

\* what the filtered query of a method finds on the table, for the call of
\* the answer in flight (reads leave the rows as they are)
TierQuery(method) ==
    WhereQuery(table_rows[StorePath],
               IF method = 1 THEN WhereMethod1(last.user) ELSE WhereMethod2(last.user),
               last.limit, method)

Tier1Answers == last.tier1 = "answers" /\ TierQuery(1).ok
Tier2Answers == last.tier2 = "answers" /\ TierQuery(2).ok

Awaits(c) ==
    CASE c = "add_message" -> {"count_user_messages", "BaseTopic.add_message"}
      [] c = "count_user_messages" ->
             {"BaseTopic.get_messages_by_user", "BaseTopic.get_messages"}
      [] c = "BaseTopic.get_messages_by_user" ->
             {"BaseTopic.initialize", "BaseTopic.get_messages"}
      [] c = "BaseTopic.get_messages" ->
             {"BaseTopic.initialize", "TopicStorage.get_messages"}
      [] c = "BaseTopic.add_message" ->
             {"BaseTopic.initialize", "TopicStorage.add_message"}
      [] c = "BaseTopic._async_init" -> {"BaseTopic.initialize"}
      [] c = "BaseTopic.initialize" -> {"TopicStorage.initialize"}
      [] c = "TopicStorage.get_messages" -> {"TopicStorage._ensure_initialized"}
      [] c = "TopicStorage.add_message" -> {"TopicStorage._ensure_initialized"}
      [] c = "TopicStorage._ensure_initialized" -> {"TopicStorage.initialize"}
      [] c = "TopicStorage.initialize" ->
             {"TopicStorage._create_or_connect_db", "TopicStorage._create_or_connect_table"}
      [] c = "TopicStorage._create_or_connect_table" ->
             {"TopicStorage._create_or_connect_db"}
      [] OTHER -> {}

\* awaitables that are not coroutines of the program: futures of pending
\* input or output. The only one in the add path, table.query()...to_arrow()
\* of get_messages, is awaited in the handler of a failed scan.
PendingFutures == {}

SuspendsAtEveryAwait(c) == Awaits(c) # {}

\* awaiting c can hand the event loop to another task: a coroutine runs on
\* until it awaits a pending future, itself or through what it awaits
RECURSIVE Suspends(_)
Suspends(c) ==
    \/ c \in PendingFutures
    \/ \E d \in Awaits(c) : Suspends(d)

\* add requests a run accepts
MaxRequests == 3
LoopTopics == {"chat", "topic1", "Neighborhood Hub Chat"}
LoopUsers == {"u1", "u2"}
LoopLimits == {TestLimit(1), TestLimit(2)}

InitLoop == Init

\* a client sends POST /topics/{topic_name}/messages?test_limit=...; the
\* server makes a task of it
Submit(topic_name, user_id, test_limit) ==
    /\ Len(tasks) < MaxRequests
    /\ tasks' = Append(tasks, [pc |-> "ready", topic |-> topic_name, user |-> user_id,
                               limit |-> CurrentLimit(test_limit), test_limit |-> test_limit,
                               during |-> running, count |-> 0, seen |-> 0, status |-> 0,
                               id |-> "none", bg_pending |-> FALSE])
    /\ UNCHANGED <<model_type, np_random, gen_log, topics, init_complete, bg_init,
                   st_initialized, st_table, table_exists, table_rows, messages, next_id,
                   last, disk_ok, running, test_values, MAX_MESSAGES_PER_USER,
                   registry, topic_id, next_uuid>>

\* add_message of main.py up to the gate (main.py:185-223); the task keeps
\* the event loop unless one of the awaited coroutines suspends
RunCheck(i) ==
    /\ running = 0
    /\ tasks[i].pc = "ready"
    /\ \E orders \in SortChoices(W, Paths) :
         \E c \in {CountUserMessages(W, topics, tasks[i].user, tasks[i].test_limit, orders,
                                     Dimension(model_type))} :
             /\ SetWorld(c.w)
             /\ IF QuotaReached(c.count, tasks[i].limit)
                THEN /\ tasks' = [tasks EXCEPT ![i].pc = "done", ![i].count = c.count,
                                               ![i].status = 429]
                     /\ running' = 0
                ELSE /\ tasks' = [tasks EXCEPT ![i].pc = "counted", ![i].count = c.count,
                                               ![i].seen = PersistedOf(c.w.table_rows,
                                                                       tasks[i].user)]
                     /\ running' = IF Suspends("count_user_messages")
                                      \/ Suspends("BaseTopic.add_message")
                                   THEN 0 ELSE i
    /\ UNCHANGED <<model_type, gen_log, topics, bg_init, next_id, last, disk_ok,
                   test_values, MAX_MESSAGES_PER_USER,
                   registry, topic_id, next_uuid>>

\* add_message of main.py from the gate on (main.py:225-242)
RunAppend(i) ==
    /\ running \in {0, i}
    /\ tasks[i].pc = "counted"
    /\ LET topic_name == tasks[i].topic
           is_new == ~SeqContains(topics, topic_name)
           message == [id |-> ToString(next_id), content |-> "ab",
                       userId |-> tasks[i].user, timestamp |-> next_id,
                       metadata |-> << >>]
       IN  /\ \E r \in {TopicAddMessage(W, topic_name, message, model_type, "no_dependency",
                                        Dimension(model_type))} :
                /\ SetWorld(r.w)
                /\ tasks' = [tasks EXCEPT ![i].pc = "done",
                                          ![i].status = IF r.ok THEN 200 ELSE 500,
                                          ![i].id = message.id,
                                          ![i].bg_pending = is_new \/ bg_init[topic_name]]
           /\ topics' = IF is_new THEN Append(topics, topic_name) ELSE topics
           /\ bg_init' = IF is_new THEN [bg_init EXCEPT ![topic_name] = TRUE] ELSE bg_init
    /\ next_id' = next_id + 1
    /\ running' = 0
    /\ UNCHANGED <<model_type, gen_log, last, disk_ok, test_values, MAX_MESSAGES_PER_USER,
                   registry, topic_id, next_uuid>>

\* the _async_init task of a topic created by a request gets the loop
LoopBackgroundInit(key) ==
    /\ running = 0
    /\ BackgroundInit(key)

NextLoop ==
    \/ \E topic_name \in LoopTopics, user_id \in LoopUsers, test_limit \in LoopLimits :
          Submit(topic_name, user_id, test_limit)
    \/ \E i \in DOMAIN tasks : RunCheck(i)
    \/ \E i \in DOMAIN tasks : RunAppend(i)
    \/ \E key \in TopicKeys : LoopBackgroundInit(key)

SpecLoop == InitLoop /\ [][NextLoop]_vars

\* requests that passed the gate and have not appended yet
Counted == {i \in DOMAIN tasks : tasks[i].pc = "counted"}

TableIds(path) == {table_rows[path][k].id : k \in 1..Len(table_rows[path])}

\* ids of the messages whose add request was answered 200, per table
AddedIds(path) ==
    {tasks[i].id : i \in {j \in DOMAIN tasks : /\ tasks[j].status = 200
                                               /\ PathOf(tasks[j].topic) = path}}

\* every request is answered and every scheduled initialization has run
Quiescent ==
    /\ \A i \in DOMAIN tasks : tasks[i].pc = "done"
    /\ \A key \in TopicKeys : ~bg_init[key]

MaxStoredRows == 3
RowLimits == {1, 2, 3}

\* the metadata column is a string: a JSON object, a JSON scalar, a string
\* that is no JSON, or the empty string
StoredMetadata ==
    {JsonDumps(<< >>),
     JsonDumps(<< <<"k", <<"str", "v">> >> >>),
     <<JLBrace>>,
     << <<"lit", "true">> >>,
     << >>}

StoredRow(i, timestamp, metadata, dim) ==
    [id |-> ToString(i), content |-> "ab", userId |-> "u1", timestamp |-> timestamp,
     metadata |-> metadata,
     vector |-> [kind |-> "zeros", len |-> dim, seed |-> <<0, 0>>, off |-> 0]]

InitRows ==
    /\ EnvInit
    /\ model_type = "sentence-transformer"
    /\ gen_log = << >>
    /\ topics = << >>
    /\ next_id = 1
    /\ last = NoOp
    /\ bg_init = [k \in TopicKeys |-> FALSE]
    /\ \E n \in 0..MaxStoredRows :
         \E ts \in [1..n -> StoreTimestamps], md \in [1..n -> StoredMetadata] :
            LET dim == Dimension(model_type)
                rows == [i \in 1..n |-> StoredRow(i, ts[i], md[i], dim)]
                w0 == [BlankWorld EXCEPT !.table_exists[StorePath] = TRUE,
                                         !.table_rows[StorePath] = rows]
                w == ConstructSync(w0, StoreKey, dim)
            IN  /\ init_complete = w.init_complete
                /\ st_initialized = w.st_initialized
                /\ st_table = w.st_table
                /\ table_exists = w.table_exists
                /\ table_rows = w.table_rows
                /\ messages = w.messages
                /\ np_random = w.np_random

NextRows ==
    \/ \E limit \in RowLimits : StoreGetMessages(limit)
    \/ Deliver

SpecRows == InitRows /\ [][NextRows]_vars

\* the metadata of a stored row is a JSON object
WellFormed(row) == JsonLoads(row.metadata).ok

\* the metadata of a stored row is no JSON at all
NotJson(row) == row.metadata # << >> /\ ~JsonScalar(row.metadata) /\ ~WellFormed(row)

\* the rows get_messages(limit) reads, for one outcome of the sort
NewestRows(order, limit) == Prefix([i \in 1..Len(order) |-> StoreRows[order[i]]], limit)

TheOne(S) == CHOOSE x \in S : TRUE

\* a first loop without the try block: the error of a topic leaves the count
RECURSIVE CountFirstPassFPropagate(_, _, _, _, _, _, _, _, _, _)
CountFirstPassFPropagate(w, keys, i, user_id, limit, total, orders, dim, avail, falsy) ==
    IF i > Len(keys)
    THEN [w |-> w, total |-> total, early |-> FALSE, queried |-> keys, failed |-> {},
          raised |-> FALSE]
    ELSE TheOne({
           IF ~r.ok
           THEN [w |-> r.w, total |-> total, early |-> FALSE,
                 queried |-> SubSeq(keys, 1, i), failed |-> {i}, raised |-> TRUE]
           ELSE IF total + Len(r.msgs) >= limit
                THEN [w |-> r.w, total |-> total + Len(r.msgs), early |-> TRUE,
                      queried |-> SubSeq(keys, 1, i), failed |-> {}, raised |-> FALSE]
                ELSE CountFirstPassFPropagate(r.w, keys, i + 1, user_id, limit,
                                              total + Len(r.msgs), orders, dim, avail,
                                              falsy)
           : r \in {TopicGetMessagesByUserF(w, keys[i], user_id, limit + 1,
                                            orders[PathOf(keys[i])], dim, 0, avail[i],
                                            falsy)}})

\* the first loop: avail[i] tells whether the directory of the i-th entry
\* can be read when the loop reaches it; the exception of a topic is caught
\* inside the loop, logged, and the loop goes on with the next entry
\* (r: what the read returned; failed: the entries whose read raised)
RECURSIVE CountFirstPassF(_, _, _, _, _, _, _, _, _, _)
CountFirstPassF(w, keys, i, user_id, limit, total, orders, dim, avail, falsy) ==
    IF i > Len(keys)
    THEN [w |-> w, total |-> total, early |-> FALSE, queried |-> keys, failed |-> {},
          raised |-> FALSE]
    ELSE TheOne({
           LET total2 == IF r.ok THEN total + Len(r.msgs) ELSE total
           IN  IF r.ok /\ total2 >= limit
               THEN [w |-> r.w, total |-> total2, early |-> TRUE,
                     queried |-> SubSeq(keys, 1, i), failed |-> {}, raised |-> FALSE]
               ELSE TheOne({[rest EXCEPT !.failed = IF r.ok THEN @ ELSE @ \cup {i}]
                            : rest \in {CountFirstPassF(r.w, keys, i + 1, user_id, limit,
                                                        total2, orders, dim, avail,
                                                        falsy)}})
           : r \in {TopicGetMessagesByUserF(w, keys[i], user_id, limit + 1,
                                            orders[PathOf(keys[i])], dim, 0, avail[i],
                                            falsy)}})

\* the second loop, with its own try block per topic
RECURSIVE CountManualPassF(_, _, _, _, _, _, _, _, _, _)
CountManualPassF(w, keys, i, user_id, limit, manual, orders, dim, avail, falsy) ==
    IF i > Len(keys)
    THEN [w |-> w, manual |-> manual, returned |-> FALSE, queried |-> keys, failed |-> {}]
    ELSE TheOne({
           LET manual2 == IF r.ok THEN manual + Len(ByUser(r.msgs, user_id)) ELSE manual
           IN  IF r.ok /\ manual2 >= limit
               THEN [w |-> r.w, manual |-> manual2, returned |-> TRUE,
                     queried |-> SubSeq(keys, 1, i), failed |-> {}]
               ELSE TheOne({[rest EXCEPT !.failed = IF r.ok THEN @ ELSE @ \cup {i}]
                            : rest \in {CountManualPassF(r.w, keys, i + 1, user_id, limit,
                                                         manual2, orders, dim, avail,
                                                         falsy)}})
           : r \in {TopicGetMessagesF(w, keys[i], FULL_SCAN_LIMIT,
                                      orders[PathOf(keys[i])], dim, 0, avail[i], falsy)}})

\* the second loop was not entered
NotRun == [manual |-> 0, returned |-> FALSE, queried |-> << >>, failed |-> {}]

\* what count_user_messages did: the two loops and the value returned
CountTrace(first, second, second_ran, count) ==
    [w |-> IF second_ran THEN second.w ELSE first.w, count |-> count,
     raised |-> first.raised, queried |-> first.queried, first_total |-> first.total,
     early |-> first.early, failed1 |-> first.failed, second_ran |-> second_ran,
     queried2 |-> second.queried, manual |-> second.manual, failed2 |-> second.failed]

\* a count whose second loop overrides the total only above the limit
CountUserMessagesFStrict(w, keys, user_id, test_limit, orders, dim, avail1, avail2, falsy) ==
    LET current_limit == CurrentLimit(test_limit)
    IN  TheOne({
          IF ~first.early /\ ~first.raised /\ first.total >= current_limit - 2
          THEN TheOne({CountTrace(first, second, TRUE,
                                  IF second.manual > current_limit THEN second.manual
                                  ELSE first.total)
                       : second \in {CountManualPassF(first.w, keys, 1, user_id,
                                                      current_limit, 0, orders, dim,
                                                      avail2, falsy)}})
          ELSE CountTrace(first, NotRun, FALSE, first.total)
          : first \in {CountFirstPassF(w, keys, 1, user_id, current_limit, 0, orders, dim,
                                       avail1, falsy)}})

\* count_user_messages; avail1 and avail2 are the outcomes of the reads of
\* the first and of the second loop
CountUserMessagesF(w, keys, user_id, test_limit, orders, dim, avail1, avail2, falsy) ==
    LET current_limit == CurrentLimit(test_limit)
    IN  TheOne({
          IF ~first.early /\ ~first.raised /\ first.total >= current_limit - 2
          THEN TheOne({CountTrace(first, second, TRUE,
                                  IF second.returned THEN second.manual
                                  ELSE first.total)
                       : second \in {CountManualPassF(first.w, keys, 1, user_id,
                                                      current_limit, 0, orders, dim,
                                                      avail2, falsy)}})
          ELSE CountTrace(first, NotRun, FALSE, first.total)
          : first \in {CountFirstPassF(w, keys, 1, user_id, current_limit, 0, orders, dim,
                                       avail1, falsy)}})

\* ------------------------------------------------------------------------
\* SpecCount: the add endpoint over the two default topics while the
\* database directories come and go between the reads
\* ------------------------------------------------------------------------
\* messages a run creates
MaxCountAdds == 2
CountTopics == <<"marketplace", "chat">>
CountLimits == {TestLimit(1), TestLimit(3)}
Outcomes == [1..Len(CountTopics) -> BOOLEAN]

\* module level of main.py: each default topic is constructed with its
\* directory available or not (the error is caught by the constructor); the
\* table of the first topic may hold a message of u1 from an earlier run of
\* the server
InitCount ==
    /\ EnvInit
    /\ model_type = "sentence-transformer"
    /\ gen_log = << >>
    /\ topics = CountTopics
    /\ bg_init = [k \in TopicKeys |-> FALSE]
    /\ next_id = 1
    /\ last = NoOp
    /\ \E avail \in Outcomes, stored \in BOOLEAN :
        LET dim == Dimension(model_type)
            path == PathOf(topics[1])
            w0 == IF stored
                  THEN [BlankWorld EXCEPT
                          !.table_exists[path] = TRUE,
                          !.table_rows[path] = <<StoredRow(0, 0, JsonDumps(<< >>), dim)>>]
                  ELSE BlankWorld
            w1 == TopicInitializeF(w0, topics[1], dim, 0, avail[1]).w
            w == TopicInitializeF(w1, topics[2], dim, 0, avail[2]).w
        IN  /\ init_complete = w.init_complete
            /\ st_initialized = w.st_initialized
            /\ st_table = w.st_table
            /\ table_exists = w.table_exists
            /\ table_rows = w.table_rows
            /\ messages = w.messages
            /\ np_random = w.np_random

\* POST /topics/{topic_name}/messages for a topic of the registry: an error
\* of the count other than the 429 is logged and does not block the add; an
\* error of the add itself is answered 500
PostMessageF(topic_name, user_id, test_limit, avail1, avail2, add_avail, falsy) ==
    /\ Idle
    /\ UNCHANGED env_vars
    /\ \E orders \in SortChoices(W, Paths) :
      \E c \in {CountUserMessagesF(W, topics, user_id, test_limit, orders,
                                   Dimension(model_type), avail1, avail2, falsy)} :
        LET current_limit == CurrentLimit(test_limit)
            message == [id |-> ToString(next_id), content |-> "ab", userId |-> user_id,
                        timestamp |-> next_id, metadata |-> << >>]
            trace == [op |-> "post", key |-> topic_name, user |-> user_id,
                      limit |-> current_limit, count |-> c.count, registry |-> topics,
                      raised |-> c.raised, queried |-> c.queried,
                      first_total |-> c.first_total, early |-> c.early,
                      failed1 |-> c.failed1, second_ran |-> c.second_ran,
                      queried2 |-> c.queried2, manual |-> c.manual,
                      failed2 |-> c.failed2, avail1 |-> avail1, avail2 |-> avail2]
        IN  IF ~c.raised /\ QuotaReached(c.count, current_limit)
            THEN /\ SetWorld(c.w)
                 /\ last' = trace @@ [status |-> 429, id |-> "none"]
                 /\ UNCHANGED <<model_type, gen_log, topics, bg_init, next_id>>
            ELSE /\ next_id <= MaxCountAdds
                 /\ \E r \in {TopicAddMessageF(c.w, topic_name, message, model_type,
                                               "no_dependency", Dimension(model_type),
                                               add_avail, falsy)} :
                      /\ SetWorld(r.w)
                      /\ last' = trace @@ [status |-> IF r.ok THEN 200 ELSE 500,
                                           id |-> message.id]
                 /\ next_id' = next_id + 1
                 /\ UNCHANGED <<model_type, gen_log, topics, bg_init>>

NextCount ==
    \/ \E topic_name \in {"marketplace", "chat"}, user_id \in RequestUsers,
          test_limit \in CountLimits, avail1 \in Outcomes, avail2 \in Outcomes,
          add_avail \in BOOLEAN, falsy \in BOOLEAN :
          PostMessageF(topic_name, user_id, test_limit, avail1, avail2, add_avail, falsy)
    \/ Deliver

SpecCount == InitCount /\ [][NextCount]_vars

\* the user's messages among the rows a scan of the topic reads
ManualCount(key, user_id) ==
    LET rows == table_rows[PathOf(key)]
        newest == SubSeq(rows, Len(rows) - Min(Len(rows), FULL_SCAN_LIMIT) + 1, Len(rows))
    IN  CountRows(newest, user_id, 1)

\* the sum of the first loop over the first n entries, the entries whose
\* read fails left out
RECURSIVE FirstTotalF(_, _, _, _, _)
FirstTotalF(keys, n, user_id, limit, avail) ==
    IF n = 0 THEN 0
    ELSE FirstTotalF(keys, n - 1, user_id, limit, avail)
         + (IF avail[n] THEN TopicCount(keys[n], user_id, limit) ELSE 0)

\* the same for the second loop
RECURSIVE ManualTotalF(_, _, _, _)
ManualTotalF(keys, n, user_id, avail) ==
    IF n = 0 THEN 0
    ELSE ManualTotalF(keys, n - 1, user_id, avail)
         + (IF avail[n] THEN ManualCount(keys[n], user_id) ELSE 0)

\* C23 as stated: the second loop runs only when the first ended without the
\* early return with a total within 2 of the limit, and the count returned is
\* the manual count exactly when the manual count is above the limit, the
\* total of the first loop otherwise.
C23_AsStated ==
    [][(Idle /\ last'.op = "post")
       => /\ last'.second_ran
             => (~last'.early /\ last'.first_total >= last'.limit - 2)
          /\ IF last'.second_ran /\ last'.manual > last'.limit
             THEN last'.count = last'.manual
             ELSE last'.count = last'.first_total
      ]_vars

\* C23: the second loop runs exactly when the first ended without the early
\* return with a total within 2 of the limit (total >= limit - 2); it sums
\* the user's messages topic by topic and, at the first topic after which the
\* sum has reached the limit (>=), the count returns that sum; when the sum
\* stays below the limit over the whole registry the count returns the total
\* of the first loop.
C23_SecondPass ==
    [][(Idle /\ last'.op = "post")
       => LET n == Len(last'.queried2)
              manual(j) == ManualTotalF(topics, j, last'.user, last'.avail2)
              first_total == FirstTotalF(topics, Len(last'.queried), last'.user,
                                         last'.limit, last'.avail1)
          IN  /\ last'.first_total = first_total
              /\ last'.second_ran = (~last'.early /\ first_total >= last'.limit - 2)
              /\ ~last'.second_ran => (n = 0 /\ last'.count = first_total)
              /\ last'.second_ran
                 => /\ n >= 1 /\ last'.queried2 = SubSeq(topics, 1, n)
                    /\ \A j \in 0..(n - 1) : manual(j) < last'.limit
                    /\ n < Len(topics) => manual(n) >= last'.limit
                    /\ IF manual(n) >= last'.limit
                       THEN last'.count = manual(n)
                       ELSE last'.count = first_total
      ]_vars

\* the second loop finds exactly as many messages as the limit, after a first
\* loop that could not read them, and the request is rejected on its sum
C23_Witness ==
    /\ last.op = "post" /\ last.status = 429
    /\ last.second_ran
    /\ last.manual = last.limit
    /\ last.count = last.manual
    /\ last.first_total < last.limit

\* C24: a read that fails in one topic during the count does not end the
\* count: the count returns a value, every later entry of the registry is
\* still queried by that loop, the value returned is the sum over the topics
\* whose read succeeded in the loop that produced it, and the request is
\* rejected exactly when that value reaches the limit.
C24_FailureSkipped ==
    [][(Idle /\ last'.op = "post")
       => LET n1 == Len(last'.queried)
              n2 == Len(last'.queried2)
              first_total == FirstTotalF(topics, n1, last'.user, last'.limit, last'.avail1)
              manual == ManualTotalF(topics, n2, last'.user, last'.avail2)
          IN  /\ ~last'.raised
              /\ last'.queried = SubSeq(topics, 1, n1)
              /\ \A i \in last'.failed1 : i <= n1 /\ (i < Len(topics) => i < n1)
              /\ \A i \in last'.failed2 : i <= n2 /\ (i < Len(topics) => i < n2)
              /\ last'.count \in {first_total, manual}
              /\ (last'.count = manual /\ manual # first_total)
                 => (last'.second_ran /\ manual >= last'.limit)
              /\ (last'.status = 429) = (last'.count >= last'.limit)
      ]_vars

\* the read of the first topic raises in the first loop, the second topic is
\* still counted and the request is rejected on its messages alone
C24_Witness ==
    /\ last.op = "post" /\ last.status = 429
    /\ 1 \in last.failed1
    /\ last.queried = <<"marketplace", "chat">>
    /\ last.early
    /\ last.count = CountRows(table_rows[PathOf("chat")], last.user, 1)
    /\ CountRows(table_rows[PathOf("marketplace")], last.user, 1) >= 1

\* ------------------------------------------------------------------------
\* topic_registry: one dict that maps uuids and names to topic objects
\* ------------------------------------------------------------------------
\* str(uuid.uuid4()): a string that was not generated before
Uuids == <<"uuid-1", "uuid-2", "uuid-3", "uuid-4">>
IsUuid(k) == \E n \in 1..Len(Uuids) : Uuids[n] = k

\* position of key k among the items of dict d, 0 when k is not a key
DictIndex(d, k) ==
    IF \E i \in 1..Len(d) : d[i].key = k
    THEN CHOOSE i \in 1..Len(d) : d[i].key = k
    ELSE 0

\* d[k] = v: a new key goes to the end, a key of d keeps its place
DictSet(d, k, v) ==
    IF DictIndex(d, k) = 0
    THEN Append(d, [key |-> k, topic |-> v])
    ELSE [d EXCEPT ![DictIndex(d, k)].topic = v]

\* del d[k]
DictDel(d, k) == SelectSeq(d, LAMBDA e : e.key # k)

\* d.get(k)
NoTopic == "None"
DictGet(d, k) == IF DictIndex(d, k) = 0 THEN NoTopic ELSE d[DictIndex(d, k)].topic

\* the values of d in the order of d.items()
DictValues(d) == [i \in 1..Len(d) |-> d[i].topic]

\* ------------------------------------------------------------------------
\* SpecRegistry: topic objects registered, removed and counted
\* ------------------------------------------------------------------------
\* add_topic calls of a run
MaxRegistrations == 2
\* messages a run creates
MaxRegistryAdds == 2

\* the topic objects a caller holds, BaseTopic("topic1") and
\* BaseTopic("test_topic"), named by their stores
RegistryObjects == {"topic1", "test_topic"}
RegistryNames == {"topic1", "test_topic"}
RegistryLimits == {TestLimit(1), TestLimit(2)}

non_registry_vars == <<model_type, np_random, gen_log, topics, init_complete, bg_init,
                       st_initialized, st_table, table_exists, table_rows, messages,
                       next_id, disk_ok, tasks, running, test_values,
                       MAX_MESSAGES_PER_USER>>

\* the registry as imported and the two objects constructed outside a
\* running loop; an object handed to add_topic is of any class (topic: Any),
\* with an id attribute or without one
InitRegistry ==
    /\ disk_ok = TRUE
    /\ tasks = << >>
    /\ running = 0
    /\ test_values = [k \in ConfigKeys |-> NoValue]
    /\ MAX_MESSAGES_PER_USER = MAX_MESSAGES_PER_USER_DEFAULT
    /\ registry = << >>
    /\ next_uuid = 1
    /\ topic_id \in [TopicKeys -> {NoAttr, Unset}]
    /\ \A k \in TopicKeys \ RegistryObjects : topic_id[k] = NoAttr
    /\ model_type = "sentence-transformer"
    /\ gen_log = << >>
    /\ topics = << >>
    /\ bg_init = [k \in TopicKeys |-> FALSE]
    /\ next_id = 1
    /\ last = NoOp
    /\ LET dim == Dimension(model_type)
           w == ConstructSync(ConstructSync(BlankWorld, "topic1", dim), "test_topic", dim)
       IN  /\ init_complete = w.init_complete
           /\ st_initialized = w.st_initialized
           /\ st_table = w.st_table
           /\ table_exists = w.table_exists
           /\ table_rows = w.table_rows
           /\ messages = w.messages
           /\ np_random = w.np_random

\* add_topic(name, topic)
AddTopic(name, topic) ==
    /\ Idle
    /\ next_uuid <= Min(MaxRegistrations, Len(Uuids))
    /\ LET id == Uuids[next_uuid]
       IN  /\ topic_id' = IF topic_id[topic] # NoAttr
                          THEN [topic_id EXCEPT ![topic] = id]
                          ELSE topic_id
           /\ registry' = DictSet(DictSet(registry, id, topic), name, topic)
           /\ last' = [op |-> "add_topic", key |-> name, topic |-> topic, id |-> id]
    /\ next_uuid' = next_uuid + 1
    /\ UNCHANGED non_registry_vars

\* remove_topic(name_or_id)
RemoveTopic(name_or_id) ==
    /\ Idle
    /\ registry' = DictDel(registry, name_or_id)
    /\ last' = [op |-> "remove_topic", key |-> name_or_id,
                result |-> DictIndex(registry, name_or_id) # 0]
    /\ UNCHANGED <<topic_id, next_uuid>>
    /\ UNCHANGED non_registry_vars

\* clear_topics()
ClearTopics ==
    /\ Idle
    /\ registry' = << >>
    /\ last' = [op |-> "clear_topics", result |-> TRUE]
    /\ UNCHANGED <<topic_id, next_uuid>>
    /\ UNCHANGED non_registry_vars

\* get_topic(name)
GetTopic(name) ==
    /\ Idle
    /\ last' = [op |-> "get_topic", key |-> name, result |-> DictGet(registry, name)]
    /\ UNCHANGED registry_vars
    /\ UNCHANGED non_registry_vars

\* get_topic_by_id(topic.id) for an object that has the attribute
GetTopicById(topic) ==
    /\ Idle
    /\ topic_id[topic] # NoAttr
    /\ last' = [op |-> "get_topic_by_id", key |-> topic_id[topic], topic |-> topic,
                result |-> DictGet(registry, topic_id[topic])]
    /\ UNCHANGED registry_vars
    /\ UNCHANGED non_registry_vars

\* await topic.add_message(Message(...)) on an object the caller holds
RegistryTopicAdd(topic, user_id) ==
    /\ Idle
    /\ next_id <= MaxRegistryAdds
    /\ LET message == [id |-> ToString(next_id), content |-> "ab", userId |-> user_id,
                       timestamp |-> next_id, metadata |-> << >>]
       IN  \E r \in {TopicAddMessage(W, topic, message, model_type, "no_dependency",
                                     Dimension(model_type))} :
              /\ SetWorld(r.w)
              /\ last' = [op |-> "add", key |-> topic, ok |-> r.ok, id |-> message.id]
    /\ next_id' = next_id + 1
    /\ UNCHANGED <<model_type, gen_log, topics, bg_init>>
    /\ UNCHANGED env_vars

\* count_user_messages of services/message_service.py: the loops go through
\* get_topics().items()
ServiceCountUserMessages(user_id, test_limit) ==
    /\ Idle
    /\ \E orders \in SortChoices(W, Paths) :
         \E c \in {CountUserMessages(W, DictValues(registry), user_id, test_limit, orders,
                                     Dimension(model_type))} :
            /\ SetWorld(c.w)
            /\ last' = [op |-> "count", user |-> user_id, limit |-> CurrentLimit(test_limit),
                        count |-> c.count, queried |-> c.queried, early |-> c.early]
    /\ UNCHANGED <<model_type, gen_log, topics, bg_init, next_id>>
    /\ UNCHANGED env_vars

NextRegistry ==
    \/ \E name \in RegistryNames, topic \in RegistryObjects : AddTopic(name, topic)
    \/ \E k \in RegistryNames \cup {Uuids[n] : n \in 1..Len(Uuids)} : RemoveTopic(k)
    \/ ClearTopics
    \/ \E name \in RegistryNames : GetTopic(name)
    \/ \E topic \in RegistryObjects : GetTopicById(topic)
    \/ \E topic \in RegistryObjects, user_id \in RequestUsers :
          RegistryTopicAdd(topic, user_id)
    \/ \E user_id \in RequestUsers, test_limit \in RegistryLimits :
          ServiceCountUserMessages(user_id, test_limit)
    \/ Deliver

SpecRegistry == InitRegistry /\ [][NextRegistry]_vars

\* C27: the count over the registry queries no topic object twice, and the
\* messages of a user in a topic contribute their number once: the count is
\* never larger than the number of messages the user has in the tables.
C27_CountedOnce ==
    last.op = "count"
    => /\ \A i, j \in 1..Len(last.queried) :
             i # j => last.queried[i] # last.queried[j]
       /\ last.count <= PersistedOf(table_rows, last.user)

\* the items of the registry that hold topic object t
ItemsOf(d, t) == {i \in 1..Len(d) : d[i].topic = t}

\* the registry holds t as one add_topic(name, t) left it: under name and
\* under one uuid
RegisteredOnce(d, name, t) ==
    /\ DictGet(d, name) = t
    /\ Cardinality(ItemsOf(d, t)) = 2
    /\ \E i \in ItemsOf(d, t) : IsUuid(d[i].key)

\* C30: when topic object t is registered by one add_topic(name, t) and
\* remove_topic(name) returns True, no key of the registry maps to t
\* afterwards (get_topic(name) and get_topic_by_id(t.id) find nothing and the
\* iteration does not yield t); after clear_topics() the registry is empty.
C30_RemovalComplete ==
    [][/\ (last'.op = "remove_topic" /\ last'.result /\ ~IsUuid(last'.key)
           /\ RegisteredOnce(registry, last'.key, DictGet(registry, last'.key)))
          => LET t == DictGet(registry, last'.key)
             IN  /\ ItemsOf(registry', t) = {}
                 /\ DictGet(registry', last'.key) = NoTopic
                 /\ topic_id[t] # NoAttr => DictGet(registry', topic_id[t]) = NoTopic
       /\ last'.op = "clear_topics" => registry' = << >>
      ]_vars

====
